---- MODULE Spec2Model ----
(***************************************************************************)
(* Bitcoin Prediction (rm-r3/bitcoin-prediction): the date encoder, the    *)
(* CSV dataset loader, the result handler and the prediction request of    *)
(* the sketch.js variants, as state machines over JavaScript values.       *)
(*                                                                         *)
(* The variants of the script are named after what tells them apart:       *)
(*   Robust   sketch.js 441-906 and 907-1324 (PapaParse loader, callback-  *)
(*            or-promise classify, handleResults with typeof guards)       *)
(*   Arr      unnamed/part_000 304-563 (array inputs, parseInt dates)      *)
(*   Api      sketch.js 1-440 (Fear & Greed API first, gotResults)         *)
(*   Csv      unnamed/part_001 1-373 (dataUrl loader, guarded gotResults)  *)
(*   Url      unnamed/part_000 1-303 (dataUrl loader, modelReady)          *)
(***************************************************************************)
EXTENDS Integers, Sequences, FiniteSets, TLC

VARIABLES
    tz,          \* the environment's local time zone (a record, see Zones)
    d1, d2,      \* date encoder: the two date strings under test
    enc,         \* date encoder: which encoder ran, and its results on d1 and d2
    rows,        \* loader: results.data handed to the complete callback
    loader,      \* loader: which loadCSVData ran: "none", "Robust", "Arr"
    loadStatus,  \* loader: "idle", "done", or "threw" (the callback threw)
    examples,    \* loader: the addData calls the model received, in order
    count,       \* loader: the loader's accepted-count
    selErr,      \* result handler: the first argument of the callback
    selRes,      \* result handler: the second argument of the callback
    selOut,      \* result handler: which handler ran and what it did
    initPc,      \* page: where init() stands: "start", "loading", "done",
                 \* "failedInit" (before the buttons), "failedCSV" (after)
    neuralModel, \* page: neuralModel is not null
    isModelReady, isTraining, isTrained,     \* page: the flags of the script
    trainPending, \* page: calls of neuralModel.train whose callback has not run
    ops,         \* page: the classify operations started by Predict presses
    lab1, lab2,  \* advice: the two labels under test
    adv,         \* advice: which mapper ran, and its results on lab1 and lab2
    fDate, fRate, fVol,  \* prediction request: the texts of #date, #rate, #volume
    req,         \* prediction request: which handler ran and what it did
    fetchPc,     \* live data: "idle", "trying" (in the loop over the APIs), "done"
    tried,       \* live data: the APIs contacted so far and what each answered
    statusClasses, \* status: the class names of #trainStatus, in className order
    statusCall,  \* status: the last status update: its function, message and type
    removeClassBy, \* status: how the page's p5 removes a class: "classList" or "pattern"
    trainingDataLoaded, \* Api page: the flag of the script
    apiLoad,     \* Api page: how loading from the Fear & Greed API ended
    normalizeTimer, \* Api page: the setTimeout(..., 100) of initializeModelWithAPI
    csvFallback, \* Api page: loadCSVFallback: "none", "loading" or "loaded"
    visorOpen,   \* visor: the visor component is open
    dataIsOpen,  \* visor: the data-isopen attribute that isVisorOpenNow reads
    visorWasOpenAtTrainStart, \* visor: the flag of the script
    openTimer,   \* visor: pending setTimeout(openVisorForTraining, 0)
    fetchBtn,    \* Robust fetch: the #fetchData button: disabled, caption
    lastUpdate,  \* Robust fetch: the text of #lastUpdate
    visorRuns    \* visor: per training run, what was seen at the press and its close procedure

dateVars == <<d1, d2, enc>>
loadVars == <<rows, loader, loadStatus, examples, count>>
selVars == <<selErr, selRes, selOut>>
flagVars == <<initPc, neuralModel, isModelReady, isTraining, isTrained, trainPending>>
pageVars == <<flagVars, ops>>
adviceVars == <<lab1, lab2, adv>>
predVars == <<fDate, fRate, fVol, req>>
fetchVars == <<fetchPc, tried>>
statusVars == <<statusClasses, statusCall, removeClassBy>>
apiVars == <<trainingDataLoaded, apiLoad, normalizeTimer, csvFallback>>
visorVars == <<visorOpen, dataIsOpen, visorWasOpenAtTrainStart, openTimer, visorRuns>>
geckoVars == <<fetchBtn, lastUpdate>>
vars == <<tz, dateVars, loadVars, selVars, pageVars, adviceVars, predVars, fetchVars, statusVars, apiVars,
          visorVars, geckoVars>>

(***************************************************************************)
(* Bounds of the model.                                                    *)
(***************************************************************************)
\* date strings under test: a window of WindowDays consecutive days
WindowDays == 6
\* the number of rows of a parsed CSV
MaxRows == 3
\* the number of candidates of a classifier result
MaxCands == 3
\* confidences are k/MaxConf, k in 0..MaxConf
MaxConf == 2
\* the number of Predict presses that reach the classifier
MaxPredicts == 2
MaxTrainings == 2
MaxFetches == 2

(***************************************************************************)
(* JavaScript values.  A value is a record [t, n, s]: t the type tag, n    *)
(* the number of a "num" (1/0 for a "bool"), s the text of a "str".  A     *)
(* text is a sequence of tokens: one-character strings, or a whole word    *)
(* (a label) that no parser looks into.                                    *)
(***************************************************************************)
Num(n) == [t |-> "num", n |-> n, s |-> <<>>]
NaN == [t |-> "nan", n |-> 0, s |-> <<>>]
Str(s) == [t |-> "str", n |-> 0, s |-> s]
Null == [t |-> "null", n |-> 0, s |-> <<>>]
Undef == [t |-> "undef", n |-> 0, s |-> <<>>]
Bool(b) == [t |-> "bool", n |-> IF b THEN 1 ELSE 0, s |-> <<>>]

Digits == <<"0", "1", "2", "3", "4", "5", "6", "7", "8", "9">>
IsDigit(c) == \E i \in 1..10 : Digits[i] = c
DigitVal(c) == (CHOOSE i \in 1..10 : Digits[i] = c) - 1
IsSpace(c) == c = " "

RECURSIVE DigitsToInt(_, _)
DigitsToInt(s, acc) ==
    IF s = <<>> THEN acc ELSE DigitsToInt(Tail(s), acc * 10 + DigitVal(Head(s)))

AllDigits(s) == \A i \in 1..Len(s) : IsDigit(s[i])

RECURSIVE IntToChars(_)
IntToChars(n) ==
    IF n < 10 THEN <<Digits[n + 1]>> ELSE Append(IntToChars(n \div 10), Digits[(n % 10) + 1])

RECURSIVE TrimLeft(_)
TrimLeft(s) == IF s # <<>> /\ IsSpace(Head(s)) THEN TrimLeft(Tail(s)) ELSE s

RECURSIVE TrimRight(_)
TrimRight(s) ==
    IF s # <<>> /\ IsSpace(s[Len(s)]) THEN TrimRight(SubSeq(s, 1, Len(s) - 1)) ELSE s

\* String.prototype.trim
Trim(s) == TrimRight(TrimLeft(s))

\* Number(string): StringToNumber of the trimmed text; "" is 0
StringToNumber(s) ==
    LET u == Trim(s) IN
    IF u = <<>> THEN Num(0)
    ELSE IF AllDigits(u) THEN Num(DigitsToInt(u, 0))
    ELSE IF Len(u) > 1 /\ Head(u) = "-" /\ AllDigits(Tail(u)) THEN Num(0 - DigitsToInt(Tail(u), 0))
    ELSE IF Len(u) > 1 /\ Head(u) = "+" /\ AllDigits(Tail(u)) THEN Num(DigitsToInt(Tail(u), 0))
    ELSE NaN

\* Number(v)
ToNumber(v) ==
    CASE v.t = "num" -> v
      [] v.t = "nan" -> NaN
      [] v.t = "null" -> Num(0)
      [] v.t = "undef" -> NaN
      [] v.t = "bool" -> Num(v.n)
      [] v.t = "str" -> StringToNumber(v.s)
      [] OTHER -> NaN

\* Number.isFinite(v): a number that is not NaN
IsFiniteNumber(v) == v.t = "num"

\* String(v), of the values a CSV cell can hold
JsString(v) ==
    CASE v.t = "str" -> v.s
      [] v.t = "num" -> IF v.n < 0 THEN <<"-">> \o IntToChars(0 - v.n) ELSE IntToChars(v.n)
      [] v.t = "nan" -> <<"N", "a", "N">>
      [] v.t = "null" -> <<"n", "u", "l", "l">>
      [] v.t = "undef" -> <<"u", "n", "d", "e", "f", "i", "n", "e", "d">>
      [] v.t = "bool" -> IF v.n = 1 THEN <<"t", "r", "u", "e">> ELSE <<"f", "a", "l", "s", "e">>
      [] OTHER -> <<"[object Object]">>

\* v ?? alt
Coalesce(v, alt) == IF v.t \in {"null", "undef"} THEN alt ELSE v

\* the truthiness of v
Truthy(v) ==
    CASE v.t = "num" -> v.n # 0
      [] v.t = "str" -> v.s # <<>>
      [] v.t = "bool" -> v.n = 1
      [] v.t \in {"nan", "null", "undef"} -> FALSE
      [] OTHER -> TRUE

(***************************************************************************)
(* Calendar arithmetic of the Date object.                                 *)
(***************************************************************************)
\* days from 1970-01-01 to the proleptic Gregorian date y-m-d, m in 1..12
DaysFromCivil(y, m, d) ==
    LET yy == IF m <= 2 THEN y - 1 ELSE y
        era == yy \div 400
        yoe == yy - era * 400
        mp == IF m > 2 THEN m - 3 ELSE m + 9
        doy == (153 * mp + 2) \div 5 + d - 1
        doe == yoe * 365 + yoe \div 4 - yoe \div 100 + doy
    IN era * 146097 + doe - 719468

\* the date <<y, m, d>> that lies n days after 1970-01-01
CivilFromDays(n) ==
    LET z == n + 719468
        era == z \div 146097
        doe == z - era * 146097
        yoe == (doe - doe \div 1460 + doe \div 36524 - doe \div 146096) \div 365
        doy == doe - (365 * yoe + yoe \div 4 - yoe \div 100)
        mp == (5 * doy + 2) \div 153
        d == doy - (153 * mp + 2) \div 5 + 1
        m == IF mp < 10 THEN mp + 3 ELSE mp - 9
        y == yoe + era * 400 + (IF m <= 2 THEN 1 ELSE 0)
    IN <<y, m, d>>

IsLeap(y) == (y % 4 = 0 /\ y % 100 # 0) \/ y % 400 = 0
DaysInMonth(y, m) ==
    IF m = 2 THEN (IF IsLeap(y) THEN 29 ELSE 28)
    ELSE IF m \in {4, 6, 9, 11} THEN 30 ELSE 31

\* MakeDay of new Date(y, monthIndex, d): the month index and the day may be
\* out of range and carry over; a year 0..99 means 1900 + year
MakeDay(y, mi, d) ==
    LET yf == IF y >= 0 /\ y <= 99 THEN 1900 + y ELSE y
    IN DaysFromCivil(yf + mi \div 12, (mi % 12) + 1, 1) + d - 1

MinutesPerDay == 24 * 60

(***************************************************************************)
(* Local time zones.  A zone has a standard offset from UTC in minutes, a  *)
(* daylight-saving shift in minutes, and the dates [m, d] on which the     *)
(* clocks change after midnight: from `on` (shift starts) to `off`.        *)
(***************************************************************************)
ZoneUTC == [name |-> "UTC", std |-> 0, shift |-> 0, on |-> <<1, 1>>, off |-> <<1, 1>>]
\* as America/New_York in 2018: UTC-5, +1 h from 11 March to 4 November
ZoneNorth == [name |-> "North", std |-> -300, shift |-> 60, on |-> <<3, 11>>, off |-> <<11, 4>>]
\* as Australia/Sydney in 2018: UTC+10, +1 h from 7 October to 1 April
ZoneSouth == [name |-> "South", std |-> 600, shift |-> 60, on |-> <<10, 7>>, off |-> <<4, 1>>]
Zones == {ZoneUTC, ZoneNorth, ZoneSouth}

\* is daylight saving in force at local midnight starting day n (days from 1970)
InDST(z, n) ==
    LET c == CivilFromDays(n)
        md == c[2] * 100 + c[3]
        on == z.on[1] * 100 + z.on[2]
        off == z.off[1] * 100 + z.off[2]
    IN IF z.shift = 0 THEN FALSE
       ELSE IF on < off THEN md > on /\ md <= off
       ELSE md > on \/ md <= off

\* the time value, in minutes from the epoch, of local midnight of day n
LocalMidnight(z, n) ==
    n * MinutesPerDay - (z.std + (IF InDST(z, n) THEN z.shift ELSE 0))

\* new Date(y, m - 1, d) as a time value
NewDateLocal(z, y, m, d) == LocalMidnight(z, MakeDay(y, m - 1, d))

(***************************************************************************)
(* Date strings.                                                           *)
(***************************************************************************)
RECURSIVE SplitAcc(_, _, _)
SplitAcc(s, cur, acc) ==
    IF s = <<>> THEN Append(acc, cur)
    ELSE IF Head(s) = "-" THEN SplitAcc(Tail(s), <<>>, Append(acc, cur))
    ELSE SplitAcc(Tail(s), Append(cur, Head(s)), acc)

\* s.split("-")
SplitDash(s) == SplitAcc(s, <<>>, <<>>)

Pad2(n) == IF n < 10 THEN <<"0">> \o IntToChars(n) ELSE IntToChars(n)
Pad4(n) ==
    IF n < 10 THEN <<"0", "0", "0">> \o IntToChars(n)
    ELSE IF n < 100 THEN <<"0", "0">> \o IntToChars(n)
    ELSE IF n < 1000 THEN <<"0">> \o IntToChars(n)
    ELSE IntToChars(n)

\* the YYYY-MM-DD text of a calendar date
FormatYMD(y, m, d) == Pad4(y) \o <<"-">> \o Pad2(m) \o <<"-">> \o Pad2(d)

EpochDay == DaysFromCivil(2018, 1, 1)

\* the YYYY-MM-DD text of the date n days after 2018-01-01
DateOfOffset(n) ==
    LET c == CivilFromDays(EpochDay + n) IN FormatYMD(c[1], c[2], c[3])

\* the date strings under test: a window of days that starts on 2018-03-08,
\* and the days around the epoch, 2018-11-04 and 2021-06-01
WindowStart == DaysFromCivil(2018, 3, 8) - EpochDay
DateOffsets == (WindowStart..(WindowStart + WindowDays - 1)) \cup {-1, 0, 307, 308, 1247}
DateStrings == {DateOfOffset(n) : n \in DateOffsets}

(***************************************************************************)
(* The date encoders.                                                      *)
(***************************************************************************)
\* a reference date written with the month counted from 1
RefDateLocalFeb(z) == LocalMidnight(z, MakeDay(2018, 1, 1))

\* refDate = new Date(2018, 0, 1)
RefDateLocal(z) == LocalMidnight(z, MakeDay(2018, 0, 1))

\* Math.floor((inputDate - refDate) / (1000 * 60 * 60 * 24))
FloorDays(input, ref) == (input - ref) \div MinutesPerDay

\* convertDate of the Robust variant: 0 for a text that is not three finite
\* numbers, else whole days from local midnight 2018-01-01 to local midnight
\* of the date
convertDate(z, dateStr) ==
    LET parts == SplitDash(dateStr) IN
    IF Len(parts) # 3 THEN 0
    ELSE LET y == StringToNumber(parts[1])
             m == StringToNumber(parts[2])
             d == StringToNumber(parts[3])
         IN IF ~IsFiniteNumber(y) \/ ~IsFiniteNumber(m) \/ ~IsFiniteNumber(d) THEN 0
            ELSE FloorDays(NewDateLocal(z, y.n, m.n, d.n), RefDateLocal(z))

\* parseInt(s): the longest digit prefix after white space and a sign
RECURSIVE DigitPrefix(_)
DigitPrefix(s) ==
    IF s # <<>> /\ IsDigit(Head(s)) THEN <<Head(s)>> \o DigitPrefix(Tail(s)) ELSE <<>>

ParseInt(s) ==
    LET u == TrimLeft(s)
        neg == u # <<>> /\ Head(u) = "-"
        body == IF u # <<>> /\ Head(u) \in {"-", "+"} THEN Tail(u) ELSE u
        p == DigitPrefix(body)
    IN IF p = <<>> THEN NaN
       ELSE Num(IF neg THEN 0 - DigitsToInt(p, 0) ELSE DigitsToInt(p, 0))

\* convertDate of the Arr variant: parseInt parts, no finiteness guard; the
\* result is a JavaScript number, NaN when a part has no leading digits
convertDateArr(z, dateStr) ==
    LET parts == SplitDash(dateStr) IN
    IF Len(parts) = 3
    THEN LET y == ParseInt(parts[1])
             m == ParseInt(parts[2])
             d == ParseInt(parts[3])
         IN IF y.t = "nan" \/ m.t = "nan" \/ d.t = "nan" THEN NaN
            ELSE Num(FloorDays(NewDateLocal(z, y.n, m.n, d.n), RefDateLocal(z)))
    ELSE Num(0)

\* Date.parse of a date-only ISO text YYYY-MM-DD: UTC midnight of that date,
\* in minutes; NaN for any other text
DateParseISO(s) ==
    IF /\ Len(s) = 10
       /\ s[5] = "-" /\ s[8] = "-"
       /\ AllDigits(SubSeq(s, 1, 4)) /\ AllDigits(SubSeq(s, 6, 7)) /\ AllDigits(SubSeq(s, 9, 10))
    THEN LET y == DigitsToInt(SubSeq(s, 1, 4), 0)
             m == DigitsToInt(SubSeq(s, 6, 7), 0)
             d == DigitsToInt(SubSeq(s, 9, 10), 0)
         IN IF m \in 1..12 /\ d >= 1 /\ d <= DaysInMonth(y, m)
            THEN Num(DaysFromCivil(y, m, d) * MinutesPerDay)
            ELSE NaN
    ELSE NaN

\* referenceDate = new Date("2018-01-01")
RefDateUTC == DateParseISO(FormatYMD(2018, 1, 1))

\* dateToNumeric of the Api, Csv and Url variants
dateToNumeric(dateStr) ==
    LET inputDate == DateParseISO(dateStr) IN
    IF inputDate.t = "nan" \/ RefDateUTC.t = "nan" THEN NaN
    ELSE Num(FloorDays(inputDate.n, RefDateUTC.n))

(***************************************************************************)
(* The date encoders applied to two date strings.                          *)
(***************************************************************************)
NoEnc == [fn |-> "none", r1 |-> Undef, r2 |-> Undef]

DateIdle == d1 = <<>> /\ d2 = <<>> /\ enc = NoEnc
LoadIdle ==
    rows = <<>> /\ loader = "none" /\ loadStatus = "idle" /\ examples = <<>> /\ count = 0
SelIdle == selErr = Undef /\ selRes = Undef /\ selOut = [by |-> "none", kind |-> "none", top |-> Undef]
PageIdle ==
    /\ initPc = "start" /\ neuralModel = FALSE
    /\ isModelReady = FALSE /\ isTraining = FALSE /\ isTrained = FALSE
    /\ trainPending = 0 /\ ops = <<>>

AdviceIdle == lab1 = <<>> /\ lab2 = <<>> /\ adv = [fn |-> "none", a1 |-> Undef, a2 |-> Undef]

NoReq == [by |-> "none", status |-> "none", called |-> FALSE, input |-> Undef]
PredIdle == fDate = <<>> /\ fRate = <<>> /\ fVol = <<>> /\ req = NoReq

FetchIdle == fetchPc = "idle" /\ tried = <<>>

StatusCall(fn, message, type) == [fn |-> fn, message |-> message, type |-> type]
StatusIdle ==
    /\ statusClasses = <<>>
    /\ statusCall = StatusCall("none", "", "")
    /\ removeClassBy = "classList"

ApiIdle ==
    /\ trainingDataLoaded = FALSE
    /\ apiLoad = "none"
    /\ normalizeTimer = "none"
    /\ csvFallback = "none"

VisorIdle ==
    /\ visorOpen = FALSE
    /\ dataIsOpen = FALSE
    /\ visorWasOpenAtTrainStart = FALSE
    /\ openTimer = 0
    /\ visorRuns = <<>>

Button(disabled, caption) == [disabled |-> disabled, caption |-> caption]
GeckoIdle == fetchBtn = Button(FALSE, "Fetch Live Data") /\ lastUpdate = ""

InitDate ==
    /\ tz \in Zones
    /\ d1 \in DateStrings
    /\ d2 \in DateStrings
    /\ enc = NoEnc
    /\ LoadIdle
    /\ SelIdle
    /\ PageIdle
    /\ AdviceIdle
    /\ PredIdle
    /\ FetchIdle
    /\ StatusIdle
    /\ ApiIdle
    /\ VisorIdle
    /\ GeckoIdle

\* convertDate(d1), convertDate(d2) in the Robust variant
ConvertDate ==
    /\ enc.fn = "none"
    /\ enc' = [fn |-> "convertDate", r1 |-> Num(convertDate(tz, d1)), r2 |-> Num(convertDate(tz, d2))]
    /\ UNCHANGED <<tz, geckoVars, visorVars, apiVars, statusVars, fetchVars, predVars, adviceVars, d1, d2, loadVars, selVars, pageVars>>

\* convertDate(d1), convertDate(d2) in the Arr variant
ConvertDateArr ==
    /\ enc.fn = "none"
    /\ enc' = [fn |-> "convertDateArr", r1 |-> convertDateArr(tz, d1), r2 |-> convertDateArr(tz, d2)]
    /\ UNCHANGED <<tz, geckoVars, visorVars, apiVars, statusVars, fetchVars, predVars, adviceVars, d1, d2, loadVars, selVars, pageVars>>

\* dateToNumeric(d1), dateToNumeric(d2) in the Api, Csv and Url variants
DateToNumeric ==
    /\ enc.fn = "none"
    /\ enc' = [fn |-> "dateToNumeric", r1 |-> dateToNumeric(d1), r2 |-> dateToNumeric(d2)]
    /\ UNCHANGED <<tz, geckoVars, visorVars, apiVars, statusVars, fetchVars, predVars, adviceVars, d1, d2, loadVars, selVars, pageVars>>

NextDate == ConvertDate \/ ConvertDateArr \/ DateToNumeric

SpecDate == InitDate /\ [][NextDate]_vars

\* calendar order of two YYYY-MM-DD texts: the order of their characters
RECURSIVE LexLess(_, _)
LexLess(s, t) ==
    IF s = <<>> \/ t = <<>> THEN FALSE
    ELSE IF Head(s) = Head(t) THEN LexLess(Tail(s), Tail(t))
    ELSE Head(s) # "-" /\ Head(t) # "-" /\ DigitVal(Head(s)) < DigitVal(Head(t))

\* d2 is the calendar day after d1
NextCalendarDay(s, t) == \E n \in DateOffsets : s = DateOfOffset(n) /\ t = DateOfOffset(n + 1)

EpochString == FormatYMD(2018, 1, 1)

\* C9: for valid date strings d1 earlier than d2 every encoder returns a
\* strictly smaller integer for d1, in every time zone, and consecutive
\* calendar days differ by exactly 1.
C9_StrictlyMonotonic ==
    (enc.fn # "none" /\ LexLess(d1, d2)) =>
        /\ enc.r1.t = "num" /\ enc.r2.t = "num"
        /\ enc.r1.n < enc.r2.n
        /\ NextCalendarDay(d1, d2) => enc.r2.n = enc.r1.n + 1

C11_RoundTrip ==
    enc.fn = "convertDate" =>
        \A n \in DateOffsets : d1 = DateOfOffset(n) => enc.r1 = Num(n)

\* C13: the encoding is a function of the date string alone: the same string
\* gives the same integer in the same call sequence and in every other
\* local time zone.
C13_SameStringSameInteger ==
    enc.fn \in {"convertDate", "dateToNumeric"} =>
        /\ d1 = d2 => enc.r1 = enc.r2
        /\ enc.fn = "convertDate" => \A z \in Zones : Num(convertDate(z, d1)) = enc.r1
        /\ enc.fn = "dateToNumeric" => dateToNumeric(d1) = enc.r1

(***************************************************************************)
(* The date encoders applied to texts that are no dates.                   *)
(***************************************************************************)
\* texts that do not split on "-" into three numbers: "", "garbage",
\* "2018-01", "2018--", "a-b-c", "2018--05", "2018-01-01-01", "2018-2x-01"
BadDateStrings ==
    { <<>>,
      <<"g", "a", "r", "b", "a", "g", "e">>,
      <<"2", "0", "1", "8", "-", "0", "1">>,
      <<"2", "0", "1", "8", "-", "-">>,
      <<"a", "-", "b", "-", "c">>,
      <<"2", "0", "1", "8", "-", "-", "0", "5">>,
      <<"2", "0", "1", "8", "-", "0", "1", "-", "0", "1", "-", "0", "1">>,
      <<"2", "0", "1", "8", "-", "2", "x", "-", "0", "1">> }

InitBadDate ==
    /\ tz \in Zones
    /\ d1 \in BadDateStrings
    /\ d2 \in BadDateStrings
    /\ enc = NoEnc
    /\ LoadIdle
    /\ SelIdle
    /\ PageIdle
    /\ AdviceIdle
    /\ PredIdle
    /\ FetchIdle
    /\ StatusIdle
    /\ ApiIdle
    /\ VisorIdle
    /\ GeckoIdle

SpecBadDate == InitBadDate /\ [][NextDate]_vars

\* C12: convertDate (both variants) returns 0, and no NaN, for every text
\* that does not split on "-" into exactly three numeric parts.
C12_UnparseableIsZero ==
    enc.fn \in {"convertDate", "convertDateArr"} => (enc.r1 = Num(0) /\ enc.r2 = Num(0))

(***************************************************************************)
(* The dataset loader: the `complete` callback of Papa.parse.              *)
(* A row is a record of four cells; obj = FALSE is a row that is null.     *)
(***************************************************************************)
Row(date, volume, rate, prediction) ==
    [obj |-> TRUE, date |-> date, volume |-> volume, rate |-> rate, prediction |-> prediction]
NullRow == [obj |-> FALSE, date |-> Undef, volume |-> Undef, rate |-> Undef, prediction |-> Undef]

\* neuralModel.addData(inputs, outputs)
Example(date, volume, rate, label) ==
    [date |-> date, volume |-> volume, rate |-> rate, label |-> label]

\* Robust: String(row.date ?? "").trim() and String(row.prediction ?? "").trim()
CellText(v) == Trim(JsString(Coalesce(v, Str(<<>>))))

\* the row test without its check of the date text
AcceptRobustNoDateCheck(row) ==
    /\ row.obj
    /\ CellText(row.prediction) # <<>>
    /\ IsFiniteNumber(ToNumber(row.volume))
    /\ IsFiniteNumber(ToNumber(row.rate))

\* Robust, sketch.js 618-626: the row is not skipped by a `continue`
AcceptRobust(row) ==
    /\ row.obj
    /\ CellText(row.date) # <<>>
    /\ CellText(row.prediction) # <<>>
    /\ IsFiniteNumber(ToNumber(row.volume))
    /\ IsFiniteNumber(ToNumber(row.rate))

\* Robust, sketch.js 628-629: the example added for an accepted row
ExampleRobust(z, row) ==
    Example(Num(convertDate(z, CellText(row.date))), ToNumber(row.volume), ToNumber(row.rate),
            Str(CellText(row.prediction)))

\* Robust: the loop over the rows; acc is [ex, count, threw]
RECURSIVE LoopRobust(_, _, _)
LoopRobust(z, rs, acc) ==
    IF rs = <<>> THEN acc
    ELSE IF AcceptRobust(Head(rs))
         THEN LoopRobust(z, Tail(rs),
                  [acc EXCEPT !.ex = Append(@, ExampleRobust(z, Head(rs))), !.count = @ + 1])
         ELSE LoopRobust(z, Tail(rs), acc)

\* Arr, part_000 364: row.date && row.volume && row.rate && row.prediction
AcceptArr(row) ==
    Truthy(row.date) /\ Truthy(row.volume) /\ Truthy(row.rate) /\ Truthy(row.prediction)

\* Arr: reading row.date of a null row, and dateStr.split of a date cell that
\* is no string, throw a TypeError
ThrowsArr(row) == ~row.obj \/ (AcceptArr(row) /\ row.date.t # "str")

\* Arr, part_000 365-369: the example added for an accepted row
ExampleArr(z, row) ==
    Example(convertDateArr(z, row.date.s), row.volume, row.rate, row.prediction)

\* Arr: results.data.forEach; a throw ends the loop and the callback
RECURSIVE LoopArr(_, _, _)
LoopArr(z, rs, acc) ==
    IF rs = <<>> THEN acc
    ELSE IF ThrowsArr(Head(rs)) THEN [acc EXCEPT !.threw = TRUE]
    ELSE IF AcceptArr(Head(rs))
         THEN LoopArr(z, Tail(rs),
                  [acc EXCEPT !.ex = Append(@, ExampleArr(z, Head(rs))), !.count = @ + 1])
         ELSE LoopArr(z, Tail(rs), acc)

LoadStart == [ex |-> <<>>, count |-> 0, threw |-> FALSE]

\* the cells of the rows under test
TextFear == <<"Fear">>
TextGreed == <<"Greed">>
TextNeutral == <<"Neutral">>
Date2021 == FormatYMD(2021, 6, 1)
Date2018 == FormatYMD(2018, 3, 12)

RowFearStrings == Row(Str(Date2021), Str(<<"1", "0", "0">>), Str(<<"5", "0", "0", "0", "0">>), Str(TextFear))
RowGreedNoDate == Row(Str(<<>>), Str(<<"1">>), Str(<<"1">>), Str(TextGreed))
RowNeutralNumbers == Row(Str(Date2018), Num(7), Num(30000), Str(TextNeutral))
RowZeroVolume == Row(Str(Date2018), Num(0), Num(0), Str(TextGreed))
RowNullVolume == Row(Str(Date2021), Null, Num(40000), Str(TextGreed))
RowMissingRate == Row(Str(Date2021), Num(5), Undef, Str(TextFear))
RowTextVolume == Row(Str(Date2018), Str(<<"a", "b", "c">>), Num(40000), Str(TextFear))
RowNoLabel == Row(Str(Date2018), Num(5), Num(40000), Null)
RowNumberDate == Row(Num(20210601), Num(5), Num(40000), Str(TextFear))
RowBlankDate == Row(Str(<<" ">>), Num(5), Num(40000), Str(TextFear))

RowPool ==
    {RowFearStrings, RowGreedNoDate, RowNeutralNumbers, RowZeroVolume, RowNullVolume,
     RowMissingRate, RowTextVolume, RowNoLabel, RowNumberDate, RowBlankDate, NullRow}

RowLists == UNION {[1..n -> RowPool] : n \in 0..MaxRows}

InitLoad ==
    /\ tz \in Zones
    /\ rows \in RowLists
    /\ loader = "none" /\ loadStatus = "idle" /\ examples = <<>> /\ count = 0
    /\ DateIdle
    /\ SelIdle
    /\ PageIdle
    /\ AdviceIdle
    /\ PredIdle
    /\ FetchIdle
    /\ StatusIdle
    /\ ApiIdle
    /\ VisorIdle
    /\ GeckoIdle

\* loadCSVData of the Robust variant: Papa.parse completes with `rows`
LoadCSVDataRobust ==
    /\ loader = "none"
    /\ LET r == LoopRobust(tz, rows, LoadStart) IN
        /\ examples' = r.ex
        /\ count' = r.count
        /\ loadStatus' = IF r.threw THEN "threw" ELSE "done"
    /\ loader' = "Robust"
    /\ UNCHANGED <<tz, geckoVars, visorVars, apiVars, statusVars, fetchVars, predVars, adviceVars, rows, dateVars, selVars, pageVars>>

\* loadCSVData of the Arr variant: Papa.parse completes with `rows`
LoadCSVDataArr ==
    /\ loader = "none"
    /\ LET r == LoopArr(tz, rows, LoadStart) IN
        /\ examples' = r.ex
        /\ count' = r.count
        /\ loadStatus' = IF r.threw THEN "threw" ELSE "done"
    /\ loader' = "Arr"
    /\ UNCHANGED <<tz, geckoVars, visorVars, apiVars, statusVars, fetchVars, predVars, adviceVars, rows, dateVars, selVars, pageVars>>

NextLoad == LoadCSVDataRobust \/ LoadCSVDataArr

SpecLoad == InitLoad /\ [][NextLoad]_vars

\* a cell holds a finite numeric value: a number, or a text that is a numeral
NumericCell(v) ==
    \/ v.t = "num"
    \/ v.t = "str" /\ Trim(v.s) # <<>> /\ IsFiniteNumber(StringToNumber(v.s))

\* a well-formed source row: date and label strings that are not empty or
\* blank, finite numeric volume and rate
WellFormedRow(row) ==
    /\ row.obj
    /\ row.date.t = "str" /\ Trim(row.date.s) # <<>>
    /\ row.prediction.t = "str" /\ Trim(row.prediction.s) # <<>>
    /\ NumericCell(row.volume)
    /\ NumericCell(row.rate)

WellFormedRows(rs) == SelectSeq(rs, WellFormedRow)

\* the training example of a well-formed row (Feature Encoder)
EncodedRow(z, row) ==
    Example(Num(convertDate(z, row.date.s)), ToNumber(row.volume), ToNumber(row.rate),
            Str(Trim(row.prediction.s)))

\* C1: of n rows with exactly k well-formed ones the loader hands exactly the
\* k encoded well-formed rows to the model, in input order, and counts k.
C1_ExactlyTheWellFormed ==
    (loader = "Robust" /\ loadStatus = "done") =>
        LET wf == WellFormedRows(rows) IN
        /\ count = Len(wf)
        /\ Len(examples) = Len(wf)
        /\ \A i \in 1..Len(wf) : examples[i] = EncodedRow(tz, wf[i])

\* C2: a row is accepted if and only if it is well-formed: a null, missing,
\* empty or non-numeric volume or rate is skipped, a volume or rate 0 is
\* accepted.
C2_AcceptedIffWellFormed ==
    (loader # "none" /\ loadStatus = "done" /\ Len(rows) = 1) =>
        (count = 1 <=> WellFormedRow(rows[1]))

\* C3: the loader never throws, and a row list without a well-formed row
\* adds nothing to the model.
C3_NoThrowNoExamples ==
    loader # "none" =>
        /\ loadStatus # "threw"
        /\ (\A i \in 1..Len(rows) : ~WellFormedRow(rows[i])) => (examples = <<>> /\ count = 0)

\* the date of 2021-06-01 in days: 1247, and one less where the clocks are
\* an hour ahead on that day and were not on 2018-01-01
DaysTo2021(z) ==
    IF InDST(z, DaysFromCivil(2021, 6, 1)) /\ ~InDST(z, DaysFromCivil(2018, 1, 1)) THEN 1246 ELSE 1247

List(items) == [t |-> "list", n |-> 0, s |-> items]
Obj == [t |-> "obj", n |-> 0, s |-> <<>>]
Cand(label, confidence) == [label |-> label, confidence |-> confidence]
NoCand == Cand(Undef, Undef)

IsArray(v) == v.t = "list"

\* typeof v === "number"
IsNumberType(v) == v.t \in {"num", "nan"}

\* a > b on numbers, null and undefined: false when either side is NaN
JsGt(a, b) ==
    LET x == ToNumber(a)
        y == ToNumber(b)
    IN x.t = "num" /\ y.t = "num" /\ x.n > y.n

Out(by, kind, top) == [by |-> by, kind |-> kind, top |-> top]

\* a >= b on numbers, null and undefined
JsGe(a, b) ==
    LET x == ToNumber(a)
        y == ToNumber(b)
    IN x.t = "num" /\ y.t = "num" /\ x.n >= y.n

\* the scan step with >= for >
BetterRobustGe(r, top) ==
    IsNumberType(r.confidence) /\ JsGe(r.confidence, Coalesce(top.confidence, Num(0 - MaxConf)))

\* Robust, sketch.js 801: r replaces top
BetterRobust(r, top) ==
    IsNumberType(r.confidence) /\ JsGt(r.confidence, Coalesce(top.confidence, Num(0 - MaxConf)))

RECURSIVE ScanRobust(_, _)
ScanRobust(rs, top) ==
    IF rs = <<>> THEN top
    ELSE ScanRobust(Tail(rs), IF BetterRobust(Head(rs), top) THEN Head(rs) ELSE top)

\* handleResults of the Robust variant, sketch.js 780-824
handleResults(error, results) ==
    LET swap == IsArray(error) /\ results.t \in {"null", "undef"}
        err == IF swap THEN Null ELSE error
        res == IF swap THEN error ELSE results
    IN IF Truthy(err) THEN Out("Robust", "failed", NoCand)
       ELSE IF ~IsArray(res) \/ res.s = <<>> THEN Out("Robust", "noResults", NoCand)
       ELSE Out("Robust", "rendered", ScanRobust(res.s, res.s[1]))

\* Api and Url, sketch.js 358 and part_000 226: result replaces topPrediction
BetterPlain(r, top) == JsGt(r.confidence, top.confidence)

RECURSIVE ScanPlain(_, _)
ScanPlain(rs, top) ==
    IF rs = <<>> THEN top
    ELSE ScanPlain(Tail(rs), IF BetterPlain(Head(rs), top) THEN Head(rs) ELSE top)

\* gotResults of the Api and Url variants, sketch.js 346-420: results[0] of
\* null or undefined, the loop over a value that is no list, and
\* topPrediction.label of an empty list throw a TypeError
gotResults(error, results) ==
    IF Truthy(error) THEN Out("Api", "failed", NoCand)
    ELSE IF ~IsArray(results) \/ results.s = <<>> THEN Out("Api", "threw", NoCand)
    ELSE Out("Api", "rendered", ScanPlain(results.s, results.s[1]))

\* Csv and Arr: results.some(r => r.label && r.confidence !== undefined)
HasValidResults(rs) ==
    \E i \in 1..Len(rs) : Truthy(rs[i].label) /\ rs[i].confidence.t # "undef"

\* Csv, part_001 286: result replaces topPrediction
BetterCsv(r, top) ==
    /\ Truthy(r.confidence)
    /\ JsGt(r.confidence, IF Truthy(top.confidence) THEN top.confidence ELSE Num(0))

RECURSIVE ScanCsv(_, _)
ScanCsv(rs, top) ==
    IF rs = <<>> THEN top
    ELSE ScanCsv(Tail(rs), IF BetterCsv(Head(rs), top) THEN Head(rs) ELSE top)

\* gotResults of the Csv variant, part_001 262-354: results.some of a truthy
\* value that is no list throws a TypeError
gotResultsCsv(error, results) ==
    IF Truthy(error) THEN Out("Csv", "failed", NoCand)
    ELSE IF ~Truthy(results) \/ (IsArray(results) /\ results.s = <<>>)
         THEN Out("Csv", "noResults", NoCand)
    ELSE IF ~IsArray(results) THEN Out("Csv", "threw", NoCand)
    ELSE IF ~HasValidResults(results.s) THEN Out("Csv", "invalid", NoCand)
    ELSE LET top == ScanCsv(results.s, results.s[1]) IN
         IF ~Truthy(top.label) \/ top.confidence.t = "undef" THEN Out("Csv", "invalid", NoCand)
         ELSE Out("Csv", "rendered", top)

\* handleResults of the Arr variant, part_000 497-563
handleResultsArr(error, results) ==
    IF Truthy(error) THEN Out("Arr", "failed", NoCand)
    ELSE IF ~IsArray(results) \/ results.s = <<>> THEN Out("Arr", "noResults", NoCand)
    ELSE IF ~HasValidResults(results.s) THEN Out("Arr", "invalid", NoCand)
    ELSE Out("Arr", "rendered", ScanPlain(results.s, results.s[1]))

\* the candidates under test: the i-th candidate of a list has the i-th
\* label, and a confidence that is a number, NaN or missing
CandLabels == <<"Fear", "Greed", "Neutral", "Extreme Fear", "Extreme Greed">>
ConfPool == {Num(k) : k \in 0..MaxConf} \cup {Undef, NaN}
CandLists ==
    UNION {{[i \in 1..n |-> Cand(Str(<<CandLabels[i]>>), c[i])] : c \in [1..n -> ConfPool]} :
           n \in 0..MaxCands}
ListValues == {List(l) : l \in CandLists}

\* the arguments under test: (error, results) with no error or an error and
\* any results, or the results alone as the first argument
SelInputs ==
    ({Null, Undef, Obj} \X (ListValues \cup {Null, Undef, Obj}))
        \cup (ListValues \X {Null, Undef})

InitSel ==
    /\ tz = ZoneUTC
    /\ \E p \in SelInputs : selErr = p[1] /\ selRes = p[2]
    /\ selOut = Out("none", "none", Undef)
    /\ DateIdle
    /\ LoadIdle
    /\ PageIdle
    /\ AdviceIdle
    /\ PredIdle
    /\ FetchIdle
    /\ StatusIdle
    /\ ApiIdle
    /\ VisorIdle
    /\ GeckoIdle

HandleResultsRobust ==
    /\ selOut.by = "none"
    /\ selOut' = handleResults(selErr, selRes)
    /\ UNCHANGED <<tz, geckoVars, visorVars, apiVars, statusVars, fetchVars, predVars, adviceVars, dateVars, loadVars, selErr, selRes, pageVars>>

GotResultsApi ==
    /\ selOut.by = "none"
    /\ selOut' = gotResults(selErr, selRes)
    /\ UNCHANGED <<tz, geckoVars, visorVars, apiVars, statusVars, fetchVars, predVars, adviceVars, dateVars, loadVars, selErr, selRes, pageVars>>

GotResultsCsv ==
    /\ selOut.by = "none"
    /\ selOut' = gotResultsCsv(selErr, selRes)
    /\ UNCHANGED <<tz, geckoVars, visorVars, apiVars, statusVars, fetchVars, predVars, adviceVars, dateVars, loadVars, selErr, selRes, pageVars>>

HandleResultsArr ==
    /\ selOut.by = "none"
    /\ selOut' = handleResultsArr(selErr, selRes)
    /\ UNCHANGED <<tz, geckoVars, visorVars, apiVars, statusVars, fetchVars, predVars, adviceVars, dateVars, loadVars, selErr, selRes, pageVars>>

NextSel == HandleResultsRobust \/ GotResultsApi \/ GotResultsCsv \/ HandleResultsArr

SpecSel == InitSel /\ [][NextSel]_vars

\* the candidates the handler was given: the list passed as results
Given == selRes.s

\* every candidate has a label and a confidence k / MaxConf in [0, 1]
Scored(c) == c.confidence.t = "num" /\ c.confidence.n >= 0 /\ c.confidence.n <= MaxConf
AllScored(cs) == cs # <<>> /\ \A i \in 1..Len(cs) : Scored(cs[i])

\* the lowest index that holds the maximum confidence
FirstMax(cs) ==
    CHOOSE i \in 1..Len(cs) :
        /\ \A j \in 1..Len(cs) : cs[j].confidence.n <= cs[i].confidence.n
        /\ \A j \in 1..(i - 1) : cs[j].confidence.n < cs[i].confidence.n

NoError == selErr.t \in {"null", "undef"}

\* C5: given a non-empty list of candidates with confidences in [0, 1], every
\* handler renders the candidate of maximum confidence, the first of them on
\* a tie.
C5_FirstMaximumWins ==
    (selOut.by # "none" /\ NoError /\ IsArray(selRes) /\ AllScored(Given)) =>
        /\ selOut.kind = "rendered"
        /\ selOut.top = Given[FirstMax(Given)]

C5_Witness ==
    /\ selOut.by = "Robust" /\ NoError /\ IsArray(selRes) /\ Len(Given) = 3
    /\ Given[1].confidence = Num(0) /\ Given[2].confidence = Num(MaxConf)
    /\ Given[3].confidence = Num(MaxConf)
    /\ selOut.kind = "rendered" /\ selOut.top = Given[2]

\* C6: given no error and an empty list or a value that is no list, the
\* handler reports "no results": it does not throw, and it reports neither a
\* failed prediction nor a prediction.
C6_NoResultsReported ==
    (selOut.by # "none" /\ NoError /\ (~IsArray(selRes) \/ Given = <<>>)) =>
        selOut.kind = "noResults"

\* C7: a candidate without a usable (numeric) confidence is rendered only
\* when no candidate of the list has one.
C7_UnscoredNeverWins ==
    (selOut.by \in {"Robust", "Csv", "Arr"} /\ NoError /\ IsArray(selRes)
        /\ selOut.kind = "rendered" /\ selOut.top.confidence.t # "num") =>
        \A i \in 1..Len(Given) : Given[i].confidence.t # "num"

(***************************************************************************)
(* The advice mappers: labelToAdvice of the Robust variant and the switch  *)
(* of gotResults in the Api variant.  The texts are the source's, with the *)
(* arrow written -> and each emoji written by its name.                    *)
(***************************************************************************)
Advice(advice, emoji, cssClass) == [advice |-> advice, emoji |-> emoji, cssClass |-> cssClass]

\* a mapper whose Fear and Greed cases are exchanged
labelToAdviceSwapped(label) ==
    CASE label = <<"Extreme Fear">> -> Advice("Buy the dip -> STRONG BUY", "fire", "extreme-fear")
      [] label = <<"Greed">> -> Advice("Good entry point -> BUY", "anxious face", "fear")
      [] label = <<"Neutral">> -> Advice("Market stable -> HOLD", "neutral face", "neutral")
      [] label = <<"Fear">> -> Advice("Consider taking profits", "sunglasses", "greed")
      [] label = <<"Extreme Greed">> -> Advice("Sell high -> SELL", "money mouth", "extreme-greed")
      [] OTHER -> Advice("Unknown sentiment", "question mark", "")

\* labelToAdvice(label)
labelToAdvice(label) ==
    CASE label = <<"Extreme Fear">> -> Advice("Buy the dip -> STRONG BUY", "fire", "extreme-fear")
      [] label = <<"Fear">> -> Advice("Good entry point -> BUY", "anxious face", "fear")
      [] label = <<"Neutral">> -> Advice("Market stable -> HOLD", "neutral face", "neutral")
      [] label = <<"Greed">> -> Advice("Consider taking profits", "sunglasses", "greed")
      [] label = <<"Extreme Greed">> -> Advice("Sell high -> SELL", "money mouth", "extreme-greed")
      [] OTHER -> Advice("Unknown sentiment", "question mark", "")

\* the switch (label) of gotResults
adviceSwitch(label) ==
    CASE label = <<"Extreme Fear">> -> Advice("Buy the dip -> STRONG BUY", "fire", "extreme-fear")
      [] label = <<"Fear">> ->
            Advice("Good entry point -> BUY (especially for long-term holders)", "anxious face", "fear")
      [] label = <<"Neutral">> ->
            Advice("Market is stable -> HOLD or wait for clear signals", "neutral face", "neutral")
      [] label = <<"Greed">> ->
            Advice("Market is heating up -> Consider taking profits", "sunglasses", "greed")
      [] label = <<"Extreme Greed">> ->
            Advice("Buy low, sell high -> SELL (take profits)", "money mouth", "extreme-greed")
      [] OTHER -> Advice("Unable to determine market sentiment", "question mark", "unknown")

\* the labels under test: the five sentiment labels, the empty text, and
\* texts that are no label (other case, a trailing blank, other words)
LabelPool ==
    { <<"Extreme Fear">>, <<"Fear">>, <<"Neutral">>, <<"Greed">>, <<"Extreme Greed">>,
      <<>>, <<"banana">>, <<"fear">>, <<"Fear", " ">>, <<"Unknown">> }

InitAdvice ==
    /\ tz = ZoneUTC
    /\ lab1 \in LabelPool
    /\ lab2 \in LabelPool
    /\ adv = [fn |-> "none", a1 |-> Undef, a2 |-> Undef]
    /\ DateIdle
    /\ LoadIdle
    /\ SelIdle
    /\ PageIdle
    /\ PredIdle
    /\ FetchIdle
    /\ StatusIdle
    /\ ApiIdle
    /\ VisorIdle
    /\ GeckoIdle

\* labelToAdvice(lab1), labelToAdvice(lab2) in the Robust variant
LabelToAdvice ==
    /\ adv.fn = "none"
    /\ adv' = [fn |-> "labelToAdvice", a1 |-> labelToAdvice(lab1), a2 |-> labelToAdvice(lab2)]
    /\ UNCHANGED <<tz, geckoVars, visorVars, apiVars, statusVars, fetchVars, predVars, lab1, lab2, dateVars, loadVars, selVars, pageVars>>

\* the switch of gotResults on lab1 and on lab2 in the Api variant
AdviceSwitch ==
    /\ adv.fn = "none"
    /\ adv' = [fn |-> "adviceSwitch", a1 |-> adviceSwitch(lab1), a2 |-> adviceSwitch(lab2)]
    /\ UNCHANGED <<tz, geckoVars, visorVars, apiVars, statusVars, fetchVars, predVars, lab1, lab2, dateVars, loadVars, selVars, pageVars>>

NextAdvice == LabelToAdvice \/ AdviceSwitch

SpecAdvice == InitAdvice /\ [][NextAdvice]_vars

\* the css class that belongs to each of the five labels
ClassOfLabel ==
    [l \in {<<"Extreme Fear">>, <<"Fear">>, <<"Neutral">>, <<"Greed">>, <<"Extreme Greed">>} |->
        CASE l = <<"Extreme Fear">> -> "extreme-fear"
          [] l = <<"Fear">> -> "fear"
          [] l = <<"Neutral">> -> "neutral"
          [] l = <<"Greed">> -> "greed"
          [] OTHER -> "extreme-greed"]

\* C14: each of the five labels maps to its own tuple, with a non-empty emoji
\* and its css class (Extreme Fear to the STRONG BUY advice); every other
\* text, the empty one included, maps to one and the same unknown tuple.
C14_AdviceIsTotalLookup ==
    adv.fn # "none" =>
        /\ lab1 \in DOMAIN ClassOfLabel =>
              /\ adv.a1.cssClass = ClassOfLabel[lab1]
              /\ adv.a1.emoji # ""
              /\ lab1 = <<"Extreme Fear">> => adv.a1.advice = "Buy the dip -> STRONG BUY"
        /\ (lab1 \in DOMAIN ClassOfLabel /\ lab1 # lab2) => adv.a1 # adv.a2
        /\ (lab1 \notin DOMAIN ClassOfLabel /\ lab2 \notin DOMAIN ClassOfLabel) =>
              /\ adv.a1 = adv.a2
              /\ adv.a1.emoji = "question mark"

C14_Witness ==
    /\ adv.fn = "labelToAdvice" /\ lab1 = <<"Fear">> /\ lab2 = <<"banana">>
    /\ adv.a1.cssClass = "fear" /\ adv.a2.advice = "Unknown sentiment"

(***************************************************************************)
(* The page of the Robust variant: init, Train and Predict presses, and    *)
(* the callbacks of the trainer and the classifier.                        *)
(***************************************************************************)
\* the texts of the form fields under test
DateFields == {<<>>, Date2021, <<"x">>}
NumberFields == {<<>>, <<"5">>, <<"a">>, <<"5", "a">>}

\* the CSV files under test
PageRowLists == {<<>>, <<RowFearStrings, RowGreedNoDate>>, <<RowNullVolume>>}

\* what a classifier hands to the callback, and what its promise settles to
TwoCands == List(<<Cand(Str(<<"Fear">>), Num(1)), Cand(Str(<<"Greed">>), Num(MaxConf))>>)
CallbackArgs == {<<Null, TwoCands>>, <<Obj, Undef>>, <<TwoCands, Undef>>, <<Null, List(<<>>)>>}
PromiseArgs == {<<Null, TwoCands>>, <<Obj, Null>>, <<Null, List(<<>>)>>}

\* a classify operation: cb and pr are "none", "pending" or "done" (the
\* callback, the returned promise), runs counts the runs of handleResults
Op(input, cb, pr, runs) == [input |-> input, cb |-> cb, pr |-> pr, runs |-> runs]

\* the status classes of #trainStatus; its className is a sequence of names
StatusClassNames == <<"status-info", "status-success", "status-warning", "status-error">>

\* el.removeClass(c) for one class name c
RemoveClass(cs, c) == SelectSeq(cs, LAMBDA x : x # c)

\* el.addClass(c): appended unless the element has it
AddClass(cs, c) == IF \E i \in 1..Len(cs) : cs[i] = c THEN cs ELSE Append(cs, c)

\* the four removeClass calls, one per status class
RemoveStatusClasses(cs) ==
    RemoveClass(RemoveClass(RemoveClass(RemoveClass(cs, StatusClassNames[1]), StatusClassNames[2]),
                            StatusClassNames[3]), StatusClassNames[4])

\* removeClass("status-info status-success status-warning status-error"), in
\* a p5 that edits className by pattern: the four names are removed where
\* they stand in the className in this order, one after the other
RemoveClassRun(cs) ==
    IF \E i \in 1..(Len(cs) - 3) : SubSeq(cs, i, i + 3) = StatusClassNames
    THEN LET i == CHOOSE j \in 1..(Len(cs) - 3) : SubSeq(cs, j, j + 3) = StatusClassNames
         IN SubSeq(cs, 1, i - 1) \o SubSeq(cs, i + 4, Len(cs))
    ELSE cs

\* showStatus(message, type) of the Api and Csv variants
showStatus(cs, message, type) ==
    IF message = "" THEN cs
    ELSE IF type # "" THEN AddClass(RemoveStatusClasses(cs), "status-" \o type)
    ELSE RemoveStatusClasses(cs)

\* showStatus(message, type) of the Url variant in a p5 that edits className
\* by pattern
showStatusUrl(cs, message, type) ==
    IF message = "" THEN cs
    ELSE IF type # "" THEN AddClass(RemoveClassRun(cs), "status-" \o type)
    ELSE RemoveClassRun(cs)

\* setTrainStatus(text, className) of the Robust variant
setTrainStatus(cs, className) == AddClass(RemoveStatusClasses(cs), className)

\* setTrainStatus(text, className) as a step of a page handler
TrainStatus(text, className) ==
    /\ statusClasses' = setTrainStatus(statusClasses, className)
    /\ statusCall' = StatusCall("setTrainStatus", text, className)
    /\ UNCHANGED removeClassBy

\* showStatus(message, type) of the Url variant as a step of a handler: with
\* a message, a p5 whose removeClass is classList.remove throws on the name
\* with blanks, after the message is set and before addClass
UrlStatus(message, type) ==
    /\ statusClasses' = IF removeClassBy = "classList" THEN statusClasses
                        ELSE showStatusUrl(statusClasses, message, type)
    /\ statusCall' = StatusCall("showStatusUrl", message, type)
    /\ UNCHANGED removeClassBy

\* that call throws
UrlStatusThrows(message) == message # "" /\ removeClassBy = "classList"

\* the status that handleResults sets for its outcome
ResultStatus(out) ==
    CASE out.kind = "failed" -> TrainStatus("Prediction failed (see console).", "status-error")
      [] out.kind = "noResults" -> TrainStatus("No prediction results.", "status-warning")
      [] OTHER -> TrainStatus("Prediction", "status-success")

Init ==
    /\ tz \in Zones
    /\ rows \in PageRowLists
    /\ loader = "none" /\ loadStatus = "idle" /\ examples = <<>> /\ count = 0
    /\ DateIdle
    /\ SelIdle
    /\ PageIdle
    /\ AdviceIdle
    /\ PredIdle
    /\ FetchIdle
    /\ StatusIdle
    /\ ApiIdle
    /\ VisorIdle
    /\ GeckoIdle

\* setup() and init() up to Papa.parse: a missing library or a failing
\* TensorFlow backend rejects init() before the buttons are set up
InitStart ==
    /\ initPc = "start"
    /\ \/ initPc' = "loading" /\ TrainStatus("Loading dataset", "status-info")
       \/ initPc' = "failedInit" /\ TrainStatus("Init failed", "status-error")
    /\ UNCHANGED <<tz, geckoVars, visorVars, apiVars, fetchVars, predVars, adviceVars, dateVars, loadVars, selVars, neuralModel, isModelReady, isTraining,
                   isTrained, trainPending, ops>>

\* Papa.parse completes: loadCSVData creates the model, adds the rows and
\* resolves, and init() sets isModelReady
InitCSVComplete ==
    /\ initPc = "loading"
    /\ LET r == LoopRobust(tz, rows, LoadStart) IN
        /\ examples' = r.ex
        /\ count' = r.count
    /\ loader' = "Robust"
    /\ loadStatus' = "done"
    /\ neuralModel' = TRUE
    /\ isModelReady' = TRUE
    /\ initPc' = "done"
    /\ TrainStatus("Dataset loaded. Ready to train.", "status-success")
    /\ UNCHANGED <<tz, geckoVars, visorVars, apiVars, fetchVars, predVars, adviceVars, rows, dateVars, selVars, isTraining, isTrained, trainPending, ops>>

\* a CSV error that init() swallows: it goes on as after a complete load
InitCSVErrorSwallowed ==
    /\ initPc = "loading"
    /\ initPc' = "failedCSV"
    /\ isModelReady' = TRUE
    /\ TrainStatus("Dataset loaded. Ready to train.", "status-success")
    /\ UNCHANGED <<tz, geckoVars, visorVars, apiVars, fetchVars, predVars, adviceVars, dateVars, loadVars, selVars, neuralModel, isTraining,
                   isTrained, trainPending, ops>>

\* Papa.parse reports an error: loadCSVData rejects, init() fails and
\* setup() shows the failure
InitCSVError ==
    /\ initPc = "loading"
    /\ initPc' = "failedCSV"
    /\ TrainStatus("Init failed", "status-error")
    /\ UNCHANGED <<tz, geckoVars, visorVars, apiVars, fetchVars, predVars, adviceVars, dateVars, loadVars, selVars, neuralModel, isModelReady, isTraining,
                   isTrained, trainPending, ops>>

\* setupButtons() has run: init() sets the buttons up before it requests the
\* CSV, so they stay wired when the CSV load fails
ButtonsSetUp == initPc \in {"loading", "done", "failedCSV"}

\* a press of Train that does not look at isTraining
StartTrainingUnguarded ==
    /\ ButtonsSetUp
    /\ IF trainPending > 1
       THEN UNCHANGED <<isTraining, isTrained, trainPending, statusVars>>
       ELSE IF ~isModelReady \/ ~neuralModel
       THEN /\ TrainStatus("Model not ready yet", "status-warning")
            /\ UNCHANGED <<isTraining, isTrained, trainPending>>
       ELSE /\ isTraining' = TRUE
            /\ isTrained' = FALSE
            /\ trainPending' = trainPending + 1
            /\ TrainStatus("Training started", "status-info")
    /\ UNCHANGED <<tz, geckoVars, visorVars, apiVars, fetchVars, predVars, adviceVars, dateVars, loadVars, selVars, initPc, neuralModel,
                   isModelReady, ops>>

\* startTraining: a press of Train
StartTraining ==
    /\ ButtonsSetUp
    /\ IF isTraining
       THEN UNCHANGED <<isTraining, isTrained, trainPending, statusVars>>
       ELSE IF ~isModelReady \/ ~neuralModel
       THEN /\ TrainStatus("Model not ready yet", "status-warning")
            /\ UNCHANGED <<isTraining, isTrained, trainPending>>
       ELSE /\ isTraining' = TRUE
            /\ isTrained' = FALSE
            /\ trainPending' = trainPending + 1
            /\ TrainStatus("Training started", "status-info")
    /\ UNCHANGED <<tz, geckoVars, visorVars, apiVars, fetchVars, predVars, adviceVars, dateVars, loadVars, selVars, initPc, neuralModel, isModelReady, ops>>

\* trainingDone: the trainer's completion callback
TrainingDone ==
    /\ trainPending > 0
    /\ trainPending' = trainPending - 1
    /\ isTraining' = FALSE
    /\ isTrained' = TRUE
    /\ TrainStatus("Training complete. You can predict now.", "status-success")
    /\ UNCHANGED <<tz, geckoVars, visorVars, apiVars, fetchVars, predVars, adviceVars, dateVars, loadVars, selVars, initPc, neuralModel, isModelReady, ops>>

\* the feature tuple of makePrediction
ClassifyInput(dateStr, rateStr, volStr) ==
    [date |-> Num(convertDate(tz, dateStr)), volume |-> StringToNumber(volStr),
     rate |-> StringToNumber(rateStr)]

\* makePrediction reaches neuralModel.classify
PredictionAllowed(dateStr, rateStr, volStr) ==
    /\ isModelReady /\ neuralModel
    /\ isTrained
    /\ dateStr # <<>> /\ rateStr # <<>> /\ volStr # <<>>
    /\ IsFiniteNumber(StringToNumber(rateStr))
    /\ IsFiniteNumber(StringToNumber(volStr))

\* the status with which makePrediction refuses
RefusalText(dateStr, rateStr, volStr) ==
    IF ~isModelReady \/ ~neuralModel THEN "Model not ready."
    ELSE IF ~isTrained THEN "Train the model first."
    ELSE IF dateStr = <<>> \/ rateStr = <<>> \/ volStr = <<>>
    THEN "Please fill Date, Price, and Volume."
    ELSE "Invalid input values."

\* makePrediction: a press of Predict with the given (trimmed) field texts.
\* The classifier either throws (the catch runs handleResults at once), or
\* returns; it then signals by the callback, by a returned promise, or both.
MakePrediction ==
    /\ ButtonsSetUp
    /\ \E dateStr \in DateFields, rateStr \in NumberFields, volStr \in NumberFields :
        IF ~PredictionAllowed(dateStr, rateStr, volStr)
        THEN /\ TrainStatus(RefusalText(dateStr, rateStr, volStr), "status-warning")
             /\ UNCHANGED <<ops, selVars>>
        ELSE /\ Len(ops) < MaxPredicts
             /\ LET input == ClassifyInput(dateStr, rateStr, volStr) IN
                \/ /\ ops' = Append(ops, Op(input, "none", "none", 1))
                   /\ selErr' = Obj
                   /\ selRes' = Null
                   /\ selOut' = handleResults(Obj, Null)
                   /\ ResultStatus(handleResults(Obj, Null))
                \/ /\ \E cb \in {"none", "pending"}, pr \in {"none", "pending"} :
                        /\ cb = "pending" \/ pr = "pending"
                        /\ ops' = Append(ops, Op(input, cb, pr, 0))
                   /\ UNCHANGED <<selVars, statusVars>>
    /\ UNCHANGED <<tz, geckoVars, visorVars, apiVars, fetchVars, predVars, adviceVars, dateVars, loadVars, flagVars>>

\* the classifier calls the callback handleResults
ClassifyCallback ==
    \E i \in 1..Len(ops), a \in CallbackArgs :
        /\ ops[i].cb = "pending"
        /\ ops' = [ops EXCEPT ![i].cb = "done", ![i].runs = @ + 1]
        /\ selErr' = a[1]
        /\ selRes' = a[2]
        /\ selOut' = handleResults(a[1], a[2])
        /\ ResultStatus(handleResults(a[1], a[2]))
        /\ UNCHANGED <<tz, geckoVars, visorVars, apiVars, fetchVars, predVars, adviceVars, dateVars, loadVars, flagVars>>

\* the promise returned by classify settles: then runs handleResults(null,
\* res), catch runs handleResults(err, null)
ClassifyPromiseSettles ==
    \E i \in 1..Len(ops), a \in PromiseArgs :
        /\ ops[i].pr = "pending"
        /\ ops' = [ops EXCEPT ![i].pr = "done", ![i].runs = @ + 1]
        /\ selErr' = a[1]
        /\ selRes' = a[2]
        /\ selOut' = handleResults(a[1], a[2])
        /\ ResultStatus(handleResults(a[1], a[2]))
        /\ UNCHANGED <<tz, geckoVars, visorVars, apiVars, fetchVars, predVars, adviceVars, dateVars, loadVars, flagVars>>

Next ==
    \/ InitStart
    \/ InitCSVComplete
    \/ InitCSVError
    \/ StartTraining
    \/ TrainingDone
    \/ MakePrediction
    \/ ClassifyCallback
    \/ ClassifyPromiseSettles

Spec == Init /\ [][Next]_vars

\* the operation has completed: no signal of the classifier is outstanding
OpComplete(op) == op.cb # "pending" /\ op.pr # "pending"

\* C8: for each classify operation the result handler runs exactly once when
\* the operation completes, however the classifier signals completion.
C8_HandlerRunsOnce ==
    \A i \in 1..Len(ops) : OpComplete(ops[i]) => ops[i].runs = 1

\* C18: after a load that accepted no example the trainer is never called:
\* no training run is in flight and none has completed.
C18_NoTrainingOnEmpty ==
    (loadStatus = "done" /\ count = 0) => (trainPending = 0 /\ ~isTraining /\ ~isTrained)

InitFailed == initPc \in {"failedInit", "failedCSV"}

\* C24: when initialisation fails the "Init failed" error status is shown;
\* from then on isModelReady stays false, the failure is final, and no Train
\* or Predict press calls the trainer or the classifier.
C24_FailedInitRefusesAll ==
    /\ [](InitFailed =>
            (~isModelReady /\ ~isTraining /\ ~isTrained /\ trainPending = 0 /\ ops = <<>>))
    /\ [][(~InitFailed /\ InitFailed') =>
            (statusCall' = StatusCall("setTrainStatus", "Init failed", "status-error")
                /\ statusClasses' = <<"status-error">>)]_vars
    /\ [][InitFailed => (initPc' = initPc /\ UNCHANGED <<flagVars, ops>>)]_vars

\* the CSV load failed, and a later press of Train was refused
C24_Witness ==
    /\ initPc = "failedCSV" /\ ~isModelReady /\ trainPending = 0
    /\ statusCall = StatusCall("setTrainStatus", "Model not ready yet", "status-warning")

(***************************************************************************)
(* The prediction request: what a press of Predict does with the texts of  *)
(* the form fields, in makePrediction of the Robust and Arr variants and   *)
(* in classify of the Api, Url and Csv variants.  status is the message    *)
(* the handler ends with ("classify" when it reaches the classifier); the  *)
(* Arr variant writes its messages to the console only.                    *)
(***************************************************************************)
Req(by, status, called, input) == [by |-> by, status |-> status, called |-> called, input |-> input]

\* parseFloat(s), on the texts of the model (signs and digits): the number
\* of the longest numeric prefix, NaN without one
ParseFloat(s) == ParseInt(s)

\* an array [a, b, c]: its positions are its keys
Array3(a, b, c) == [k \in {"0", "1", "2"} |-> IF k = "0" THEN a ELSE IF k = "1" THEN b ELSE c]

\* makePrediction of the Robust variant up to neuralModel.classify
makePrediction(dateRaw, rateRaw, volRaw) ==
    LET dateStr == Trim(dateRaw)
        rateStr == Trim(rateRaw)
        volStr == Trim(volRaw)
    IN IF ~isModelReady \/ ~neuralModel THEN Req("Robust", "notReady", FALSE, Undef)
       ELSE IF ~isTrained THEN Req("Robust", "trainFirst", FALSE, Undef)
       ELSE IF dateStr = <<>> \/ rateStr = <<>> \/ volStr = <<>>
            THEN Req("Robust", "fill", FALSE, Undef)
       ELSE IF ~PredictionAllowed(dateStr, rateStr, volStr) THEN Req("Robust", "invalid", FALSE, Undef)
       ELSE Req("Robust", "classify", TRUE, ClassifyInput(dateStr, rateStr, volStr))

\* makePrediction of the Arr variant
makePredictionArr(dateStr, priceStr, volStr) ==
    IF ~isModelReady THEN Req("Arr", "notReady", FALSE, Undef)
    ELSE IF dateStr = <<>> \/ priceStr = <<>> \/ volStr = <<>> THEN Req("Arr", "fill", FALSE, Undef)
    ELSE LET dateVal == convertDateArr(tz, dateStr)
             priceVal == ParseFloat(priceStr)
             volVal == ParseFloat(volStr)
         IN IF dateVal.t = "nan" \/ priceVal.t = "nan" \/ volVal.t = "nan"
            THEN Req("Arr", "invalid", FALSE, Undef)
            ELSE Req("Arr", "classify", TRUE, Array3(dateVal, volVal, priceVal))

\* classify of the Api, Url and Csv variants
classify(by, dateStr, rateStr, volumeStr) ==
    IF ~isModelReady THEN Req(by, "notReady", FALSE, Undef)
    ELSE IF dateStr = <<>> \/ rateStr = <<>> \/ volumeStr = <<>> THEN Req(by, "fill", FALSE, Undef)
    ELSE LET dateValue == dateToNumeric(dateStr)
             rateValue == ParseFloat(rateStr)
             volumeValue == ParseFloat(volumeStr)
         IN IF dateValue.t = "nan" \/ rateValue.t = "nan" \/ volumeValue.t = "nan"
            THEN Req(by, "invalid", FALSE, Undef)
            ELSE Req(by, "classify", TRUE,
                     [date |-> dateValue, volume |-> volumeValue, rate |-> rateValue])

\* the features of the training example that a variant makes of a CSV row
\* with the cells date, volume and rate: the Robust and Arr loaders encode
\* the date with their convertDate; the Url and Csv variants hand the file
\* to the library by dataUrl with the column names as inputs, so the date
\* stays the cell's text; the Api variant encodes the dates of the API's
\* items with dateToNumeric and falls back to dataUrl
trainInputs(by, z, date, volume, rate) ==
    CASE by = "Robust" -> [date |-> Num(convertDate(z, date)), volume |-> volume, rate |-> rate]
      [] by = "Arr" -> Array3(convertDateArr(z, date), volume, rate)
      [] by = "Api" -> [date |-> dateToNumeric(date), volume |-> volume, rate |-> rate]
      [] OTHER -> [date |-> Str(date), volume |-> volume, rate |-> rate]

\* the texts of #date under test: those of the page and "2018--"
PredictDates == DateFields \cup {<<"2", "0", "1", "8", "-", "-">>}

\* a page whose dataset is loaded: the model untrained, in training, or trained
InitPredict ==
    /\ tz \in Zones
    /\ fDate \in PredictDates
    /\ fRate \in NumberFields
    /\ fVol \in NumberFields
    /\ req = NoReq
    /\ rows = <<RowFearStrings, RowGreedNoDate>>
    /\ loader = "Robust" /\ loadStatus = "done"
    /\ examples = LoopRobust(tz, rows, LoadStart).ex
    /\ count = LoopRobust(tz, rows, LoadStart).count
    /\ initPc = "done" /\ neuralModel = TRUE /\ isModelReady = TRUE
    /\ isTraining \in BOOLEAN /\ isTrained \in BOOLEAN /\ ~(isTraining /\ isTrained)
    /\ trainPending = (IF isTraining THEN 1 ELSE 0) /\ ops = <<>>
    /\ DateIdle
    /\ SelIdle
    /\ AdviceIdle
    /\ FetchIdle
    /\ StatusIdle
    /\ ApiIdle
    /\ VisorIdle
    /\ GeckoIdle

\* a press of Predict in the Robust variant
PredictRobust ==
    /\ req.by = "none"
    /\ req' = makePrediction(fDate, fRate, fVol)
    /\ UNCHANGED <<tz, geckoVars, visorVars, apiVars, statusVars, fetchVars, fDate, fRate, fVol, dateVars, loadVars, selVars, pageVars, adviceVars>>

\* a press of Predict in the Arr variant
PredictArr ==
    /\ req.by = "none"
    /\ req' = makePredictionArr(fDate, fRate, fVol)
    /\ UNCHANGED <<tz, geckoVars, visorVars, apiVars, statusVars, fetchVars, fDate, fRate, fVol, dateVars, loadVars, selVars, pageVars, adviceVars>>

\* a press of Predict in the Api, Url or Csv variant
PredictClassify ==
    /\ req.by = "none"
    /\ \E by \in {"Api", "Url", "Csv"} : req' = classify(by, fDate, fRate, fVol)
    /\ UNCHANGED <<tz, geckoVars, visorVars, apiVars, statusVars, fetchVars, fDate, fRate, fVol, dateVars, loadVars, selVars, pageVars, adviceVars>>

NextPredict == PredictRobust \/ PredictArr \/ PredictClassify

SpecPredict == InitPredict /\ [][NextPredict]_vars

\* the text is a numeral: a sign at most, then digits, blanks around it
NumericText(s) ==
    LET u == Trim(s)
        body == IF u # <<>> /\ Head(u) \in {"-", "+"} THEN Tail(u) ELSE u
    IN body # <<>> /\ AllDigits(body)

\* C15: when the text of #rate or of #volume is no numeral, the request ends
\* with an invalid-input message and the classifier is not called.
C15_ClassifyOnlyNumbers ==
    (req.by # "none" /\ isTrained /\ (~NumericText(fRate) \/ ~NumericText(fVol))) =>
        (~req.called /\ req.status \in {"fill", "invalid"})

\* the text splits on "-" into three numerals
IsDateText(s) ==
    LET parts == SplitDash(s) IN
    Len(parts) = 3 /\ \A i \in 1..3 : parts[i] # <<>> /\ AllDigits(parts[i])

\* C16: a prediction request whose date text is unparseable does not reach
\* the classifier: no classify call carries a date made of such a text.
C16_UnparseableDateNotClassified ==
    (req.by # "none" /\ ~IsDateText(fDate)) => ~req.called

\* C17: the feature tuple handed to the classifier is the tuple that training
\* made of a row with the same date, volume and rate: the same date
\* transform, the same fields or positions, in every variant.
C17_SameFeatureSpace ==
    (req.called /\ IsDateText(fDate) /\ NumericText(fRate) /\ NumericText(fVol)) =>
        req.input = trainInputs(req.by, tz, fDate, StringToNumber(fVol), StringToNumber(fRate))

\* C21: the classifier is called only after a training run has completed
\* and while none is in progress; isTraining and isTrained are never both
\* true, and isTrained implies isModelReady.
C21_ClassifyOnlyWhenTrained ==
    /\ ~(isTraining /\ isTrained)
    /\ isTrained => isModelReady
    /\ req.called => (isTrained /\ ~isTraining)

(***************************************************************************)
(* Fetch Live Data of the Api variant: fetchLiveData loops over three      *)
(* price APIs.  A number of a response body is held in halves (3 is 1.5),  *)
(* so that Math.round has something to round.                              *)
(***************************************************************************)
ApiNames == <<"CoinGecko", "CryptoCompare", "Blockchain.info">>

\* what an API can answer: fetch rejects; a response that is not ok; a body
\* that is no JSON; a body in which parse reads a property of undefined; a
\* body that holds the price and no volume; a body that holds both (a and b,
\* in halves: price and volume, or last and 15m for Blockchain.info)
Answer(kind, a, b) == [kind |-> kind, a |-> a, b |-> b]
Answers ==
    {Answer(k, 0, 0) : k \in {"networkError", "notOk", "badJson", "badShape"}}
        \cup {Answer("noVolume", a, 0) : a \in {2, 3}}
        \cup {Answer("ok", a, b) : a \in {2, 3}, b \in {4, 5}}

\* Math.round of x halves
RoundHalves(x) == (x + 1) \div 2

\* api.parse(data) of the API at index i: price and volume, in halves
Parse(i, ans) ==
    IF i = 3 THEN [price |-> ans.a, volume |-> ans.b * 144 * 1000000]
    ELSE [price |-> ans.a, volume |-> ans.b]

\* the catch block and the end of the loop body: on to the next API, and
\* out of the loop after the last
TryFailed(i) == IF i = Len(ApiNames) THEN "done" ELSE "trying"

InitFetch ==
    /\ tz = ZoneUTC
    /\ fetchPc = "idle"
    /\ tried = <<>>
    /\ fDate = <<>> /\ req = NoReq
    /\ fRate \in NumberFields
    /\ fVol \in NumberFields
    /\ DateIdle
    /\ LoadIdle
    /\ SelIdle
    /\ PageIdle
    /\ AdviceIdle
    /\ StatusIdle
    /\ ApiIdle
    /\ VisorIdle
    /\ GeckoIdle

\* a press of Fetch Live Data: fetchLiveData up to the first fetch
FetchLiveData ==
    /\ fetchPc = "idle"
    /\ fetchPc' = "trying"
    /\ UNCHANGED <<tz, geckoVars, visorVars, apiVars, statusVars, tried, predVars, dateVars, loadVars, selVars, pageVars, adviceVars>>

\* one turn of the loop: the API at index Len(tried) + 1 answers.  An ok
\* response whose body parses sets both fields and returns; a failure goes
\* on to the next API, and after the last to the sample values
TryApi ==
    /\ fetchPc = "trying"
    /\ \E ans \in Answers :
        LET i == Len(tried) + 1
            parsed == Parse(i, ans)
        IN /\ tried' = Append(tried, [api |-> ApiNames[i], ans |-> ans])
           /\ IF ans.kind = "ok"
              THEN /\ fRate' = JsString(Num(RoundHalves(parsed.price)))
                   /\ fVol' = JsString(Num(RoundHalves(parsed.volume)))
                   /\ fetchPc' = "done"
              ELSE IF ans.kind = "noVolume"
              THEN /\ fRate' = JsString(Num(RoundHalves(parsed.price)))
                   /\ fVol' \in {JsString(NaN), <<>>}
                   /\ fetchPc' = "done"
              ELSE /\ fetchPc' = TryFailed(i)
                   /\ IF TryFailed(i) = "done"
                      THEN /\ fRate' = <<"9", "5", "0", "0", "0">>
                           /\ fVol' = <<"4", "5", "0", "0", "0", "0", "0", "0", "0", "0", "0">>
                      ELSE UNCHANGED <<fRate, fVol>>
    /\ UNCHANGED <<tz, geckoVars, visorVars, apiVars, statusVars, fDate, req, dateVars, loadVars, selVars, pageVars, adviceVars>>

NextFetch == FetchLiveData \/ TryApi

SpecFetch == InitFetch /\ [][NextFetch]_vars

\* the API gave no usable answer
FailedAnswer(t) == t.ans.kind # "ok"

\* C19: the APIs are contacted in the order CoinGecko, CryptoCompare,
\* Blockchain.info, each only after every earlier one failed; after the
\* first success the fields hold its values and no later API is contacted;
\* after three failures the fields hold 95000 and 45000000000; the operation
\* ends with both fields populated.
C19_FallbackInOrder ==
    /\ \A i \in 1..Len(tried) : tried[i].api = ApiNames[i]
    /\ \A i \in 1..(Len(tried) - 1) : FailedAnswer(tried[i])
    /\ fetchPc = "trying" => \A i \in 1..Len(tried) : FailedAnswer(tried[i])
    /\ fetchPc = "done" =>
          LET last == tried[Len(tried)] IN
          /\ fRate # <<>> /\ fVol # <<>>
          /\ IF FailedAnswer(last)
             THEN /\ Len(tried) = Len(ApiNames)
                  /\ fRate = <<"9", "5", "0", "0", "0">>
                  /\ fVol = <<"4", "5", "0", "0", "0", "0", "0", "0", "0", "0", "0">>
             ELSE /\ fRate = IntToChars(RoundHalves(last.ans.a))
                  /\ fVol = IntToChars(RoundHalves(Parse(Len(tried), last.ans).volume))

(***************************************************************************)
(* The status element #trainStatus: showStatus of the Api and Csv          *)
(* variants, showStatus of the Url variant, setTrainStatus of the Robust   *)
(* variant.  The element's className is a sequence of class names.         *)
(***************************************************************************)
StatusMessages == {"", "message"}
StatusTypes == {"", "info", "success", "warning", "error"}

InitStatus ==
    /\ tz = ZoneUTC
    /\ statusClasses = <<>>
    /\ statusCall = StatusCall("none", "", "")
    /\ removeClassBy \in {"classList", "pattern"}
    /\ DateIdle
    /\ LoadIdle
    /\ SelIdle
    /\ PageIdle
    /\ AdviceIdle
    /\ PredIdle
    /\ FetchIdle
    /\ ApiIdle
    /\ VisorIdle
    /\ GeckoIdle

\* a call of showStatus in the Api or Csv variant
ShowStatus ==
    /\ statusCall.fn \in {"none", "showStatus"}
    /\ \E message \in StatusMessages, type \in StatusTypes :
        /\ statusClasses' = showStatus(statusClasses, message, type)
        /\ statusCall' = StatusCall("showStatus", message, type)
    /\ UNCHANGED removeClassBy
    /\ UNCHANGED <<tz, geckoVars, visorVars, apiVars, dateVars, loadVars, selVars, pageVars, adviceVars, predVars, fetchVars>>

\* a call of showStatus in the Url variant
ShowStatusUrl ==
    /\ statusCall.fn \in {"none", "showStatusUrl"}
    /\ \E message \in StatusMessages, type \in StatusTypes : UrlStatus(message, type)
    /\ UNCHANGED <<tz, geckoVars, visorVars, apiVars, dateVars, loadVars, selVars, pageVars, adviceVars, predVars, fetchVars>>

\* a call of setTrainStatus in the Robust variant
SetTrainStatus ==
    /\ statusCall.fn \in {"none", "setTrainStatus"}
    /\ \E text \in StatusMessages, i \in 1..Len(StatusClassNames) :
        /\ statusClasses' = setTrainStatus(statusClasses, StatusClassNames[i])
        /\ statusCall' = StatusCall("setTrainStatus", text, StatusClassNames[i])
    /\ UNCHANGED removeClassBy
    /\ UNCHANGED <<tz, geckoVars, visorVars, apiVars, dateVars, loadVars, selVars, pageVars, adviceVars, predVars, fetchVars>>

NextStatus == ShowStatus \/ ShowStatusUrl \/ SetTrainStatus

SpecStatus == InitStatus /\ [][NextStatus]_vars

\* the status classes the element carries
CarriedStatusClasses ==
    {statusClasses[i] : i \in 1..Len(statusClasses)}
        \cap {StatusClassNames[i] : i \in 1..Len(StatusClassNames)}

\* the class that the last update asked for
AskedStatusClass ==
    IF statusCall.fn = "setTrainStatus" THEN statusCall.type ELSE "status-" \o statusCall.type

\* C27: the status element carries at most one of the four status classes,
\* and after an update with a message and a type exactly the class of that
\* update.
C27_OneStatusClass ==
    /\ Cardinality(CarriedStatusClasses) <= 1
    /\ (statusCall.fn # "none" /\ statusCall.message # "" /\ statusCall.type # "") =>
          CarriedStatusClasses = {AskedStatusClass}

(***************************************************************************)
(* The page of the Url variant: setup, the modelReady callback, Train      *)
(* presses and the trainer's callbacks.                                    *)
(***************************************************************************)
InitUrl ==
    /\ tz = ZoneUTC
    /\ statusClasses = <<>>
    /\ statusCall = StatusCall("none", "", "")
    /\ removeClassBy \in {"classList", "pattern"}
    /\ fDate \in DateFields
    /\ fRate \in NumberFields
    /\ fVol = <<"5">>
    /\ req = NoReq
    /\ DateIdle
    /\ LoadIdle
    /\ SelIdle
    /\ PageIdle
    /\ AdviceIdle
    /\ FetchIdle
    /\ ApiIdle
    /\ VisorIdle
    /\ GeckoIdle

\* setup(): ml5.neuralNetwork(options, modelReady) starts loading the
\* dataUrl, and the buttons are wired
UrlSetup ==
    /\ initPc = "start"
    /\ initPc' = "loading"
    /\ neuralModel' = TRUE
    /\ UNCHANGED <<tz, geckoVars, visorVars, apiVars, statusVars, fetchVars, predVars, adviceVars, dateVars, loadVars, selVars, isModelReady,
                   isTraining, isTrained, trainPending, ops>>

\* modelReady: the library has loaded the data
UrlModelReady ==
    /\ initPc = "loading"
    /\ initPc' = "done"
    /\ isModelReady' = TRUE
    /\ UrlStatus("Model loaded! Click 'Train Model' to start training.", "info")
    /\ UNCHANGED <<tz, geckoVars, visorVars, apiVars, fetchVars, predVars, adviceVars, dateVars, loadVars, selVars, neuralModel, isTraining,
                   isTrained, trainPending, ops>>

\* trainModel: a press of Train; model.train is reached unless showStatus
\* throws
UrlTrainModel ==
    /\ initPc # "start"
    /\ IF isTraining
       THEN /\ UrlStatus("Training already in progress...", "warning")
            /\ UNCHANGED <<isTraining, trainPending>>
       ELSE /\ isTraining' = TRUE
            /\ UrlStatus("Training neural network... This may take a moment.", "info")
            /\ trainPending' =
                  IF UrlStatusThrows("Training neural network... This may take a moment.")
                  THEN trainPending ELSE trainPending + 1
    /\ UNCHANGED <<tz, geckoVars, visorVars, apiVars, fetchVars, predVars, adviceVars, dateVars, loadVars, selVars, initPc, neuralModel,
                   isModelReady, isTrained, ops>>

\* whileTraining: the trainer reports an epoch
UrlWhileTraining ==
    /\ trainPending > 0
    /\ UrlStatus("Training... Epoch", "info")
    /\ UNCHANGED <<tz, geckoVars, visorVars, apiVars, fetchVars, predVars, adviceVars, dateVars, loadVars, selVars, pageVars>>

\* finishedTraining: the trainer's completion callback
UrlFinishedTraining ==
    /\ trainPending > 0
    /\ trainPending' = trainPending - 1
    /\ isTraining' = FALSE
    /\ UrlStatus("Training complete! Enter data and click 'Predict' to see results.", "success")
    /\ UNCHANGED <<tz, geckoVars, visorVars, apiVars, fetchVars, predVars, adviceVars, dateVars, loadVars, selVars, initPc, neuralModel,
                   isModelReady, isTrained, ops>>

\* the message of classify in the Api and Url variants for each way it ends
ClassifyMessage(status) ==
    CASE status = "notReady" -> "Model not ready yet. Please wait..."
      [] status = "fill" -> "Please fill in all fields (or click 'Fetch Live Data')"
      [] status = "invalid" -> "Invalid input values. Please check your data."
      [] OTHER -> "Making prediction..."

\* classify: a press of Predict; model.classify is reached unless showStatus
\* throws
UrlClassify ==
    /\ initPc # "start"
    /\ LET r == classify("Url", fDate, fRate, fVol) IN
        /\ UrlStatus(ClassifyMessage(r.status), IF r.called THEN "info" ELSE "error")
        /\ req' = IF r.called /\ UrlStatusThrows(ClassifyMessage(r.status))
                  THEN Req("Url", "threw", FALSE, Undef) ELSE r
    /\ UNCHANGED <<tz, geckoVars, visorVars, apiVars, fetchVars, fDate, fRate, fVol, adviceVars, dateVars, loadVars, selVars, pageVars>>

NextUrl ==
    \/ UrlSetup
    \/ UrlModelReady
    \/ UrlTrainModel
    \/ UrlWhileTraining
    \/ UrlFinishedTraining
    \/ UrlClassify

SpecUrl == InitUrl /\ [][NextUrl]_vars

\* C22: the trainer is not called before the data is in the model: a Train
\* press before the model-ready flag is set is refused with a not-ready
\* status and leaves isTraining false, so no training run is started or in
\* flight while isModelReady is false.
C22_NoTrainingBeforeReady ==
    ~isModelReady => (~isTraining /\ trainPending = 0)

(***************************************************************************)
(* The page of the Api variant: setup with the Fear & Greed API first and  *)
(* the CSV as fallback, then Train presses.                                *)
(***************************************************************************)
\* showStatus(message, type) of the Api variant as a step of a handler
ApiStatus(message, type) ==
    /\ statusClasses' = showStatus(statusClasses, message, type)
    /\ statusCall' = StatusCall("showStatus", message, type)
    /\ UNCHANGED removeClassBy

\* the ways loadFearGreedData ends in its catch: fetch rejects, the status
\* is not OK, the body is no JSON, data is missing or empty, or
\* initializeModelWithAPI throws while it adds the data
ApiLoadFailures == {"fetchError", "notOk", "badJson", "noData", "initError"}

InitApi ==
    /\ tz = ZoneUTC
    /\ fDate \in DateFields
    /\ fRate \in NumberFields
    /\ fVol = <<"5">>
    /\ req = NoReq
    /\ StatusIdle
    /\ ApiIdle
    /\ VisorIdle
    /\ GeckoIdle
    /\ DateIdle
    /\ LoadIdle
    /\ SelIdle
    /\ PageIdle
    /\ AdviceIdle
    /\ FetchIdle

\* setup() up to the fetch of loadFearGreedData
ApiSetupStart ==
    /\ initPc = "start"
    /\ initPc' = "loading"
    /\ ApiStatus("Fetching Fear & Greed Index data from API...", "info")
    /\ UNCHANGED <<tz, geckoVars, visorVars, apiVars, fetchVars, predVars, adviceVars, dateVars, loadVars, selVars, neuralModel,
                   isModelReady, isTraining, isTrained, trainPending, ops>>

\* loadFearGreedData fails and returns false: setup() calls loadCSVFallback
ApiLoadFails ==
    /\ initPc = "loading" /\ apiLoad = "none"
    /\ \E f \in ApiLoadFailures : apiLoad' = f
    /\ csvFallback' = "loading"
    /\ neuralModel' = TRUE
    /\ ApiStatus("API unavailable, loading backup data...", "warning")
    /\ UNCHANGED <<tz, geckoVars, visorVars, trainingDataLoaded, normalizeTimer, fetchVars, predVars, adviceVars, dateVars, loadVars,
                   selVars, initPc, isModelReady, isTraining, isTrained, trainPending, ops>>

\* loadFearGreedData returns true: initializeModelWithAPI has added the data
\* and set the timer, and setup() sets the buttons up
ApiLoadReturnsTrue ==
    /\ initPc = "loading" /\ apiLoad = "none"
    /\ apiLoad' = "added"
    /\ normalizeTimer' = "pending"
    /\ neuralModel' = TRUE
    /\ initPc' = "done"
    /\ ApiStatus("Processing days of data...", "info")
    /\ UNCHANGED <<tz, geckoVars, visorVars, trainingDataLoaded, csvFallback, fetchVars, predVars, adviceVars, dateVars, loadVars,
                   selVars, isModelReady, isTraining, isTrained, trainPending, ops>>

\* the timer of initializeModelWithAPI fires: normalizeData returns and the
\* flags are set, or it throws and the catch shows the error
ApiNormalizeTimer ==
    /\ normalizeTimer = "pending"
    /\ normalizeTimer' = "fired"
    /\ \/ /\ trainingDataLoaded' = TRUE
          /\ isModelReady' = TRUE
          /\ apiLoad' = "ok"
          /\ ApiStatus("Model ready with data points! Click 'Train Model' to begin.", "success")
       \/ /\ apiLoad' = "normalizeError"
          /\ ApiStatus("Error initializing model. Please refresh the page.", "error")
          /\ UNCHANGED <<trainingDataLoaded, isModelReady>>
    /\ UNCHANGED <<tz, geckoVars, visorVars, csvFallback, fetchVars, predVars, adviceVars, dateVars, loadVars, selVars, initPc,
                   neuralModel, isTraining, isTrained, trainPending, ops>>

\* the callback of ml5.neuralNetwork in loadCSVFallback: the CSV is loaded,
\* the flags are set, and setup() goes on to set the buttons up
ApiCSVLoaded ==
    /\ csvFallback = "loading"
    /\ csvFallback' = "loaded"
    /\ trainingDataLoaded' = TRUE
    /\ isModelReady' = TRUE
    /\ initPc' = "done"
    /\ ApiStatus("Model ready with backup data! Click 'Train Model' to begin.", "success")
    /\ UNCHANGED <<tz, geckoVars, visorVars, apiLoad, normalizeTimer, fetchVars, predVars, adviceVars, dateVars, loadVars, selVars,
                   neuralModel, isTraining, isTrained, trainPending, ops>>

\* trainModel: a press of Train
ApiTrainModel ==
    /\ initPc = "done"
    /\ IF isTraining
       THEN /\ ApiStatus("Training already in progress...", "warning")
            /\ UNCHANGED <<isTraining, trainPending>>
       ELSE IF ~isModelReady \/ ~trainingDataLoaded
       THEN /\ ApiStatus("Model not ready yet. Please wait for data to load...", "warning")
            /\ UNCHANGED <<isTraining, trainPending>>
       ELSE /\ isTraining' = TRUE
            /\ trainPending' = trainPending + 1
            /\ ApiStatus("Starting neural network training... This will take 20-40 seconds.", "info")
    /\ UNCHANGED <<tz, geckoVars, visorVars, apiVars, fetchVars, predVars, adviceVars, dateVars, loadVars, selVars, initPc, neuralModel,
                   isModelReady, isTrained, ops>>

\* whileTraining: the trainer reports an epoch
ApiWhileTraining ==
    /\ trainPending > 0
    /\ ApiStatus("Training... Epoch", "info")
    /\ UNCHANGED <<tz, geckoVars, visorVars, apiVars, fetchVars, predVars, adviceVars, dateVars, loadVars, selVars, pageVars>>

\* finishedTraining: the trainer's completion callback
ApiFinishedTraining ==
    /\ trainPending > 0
    /\ trainPending' = trainPending - 1
    /\ isTraining' = FALSE
    /\ ApiStatus("Training complete! Enter data and click 'Predict' to see results.", "success")
    /\ UNCHANGED <<tz, geckoVars, visorVars, apiVars, fetchVars, predVars, adviceVars, dateVars, loadVars, selVars, initPc, neuralModel,
                   isModelReady, isTrained, ops>>

\* classify: a press of Predict
ApiClassify ==
    /\ initPc = "done"
    /\ LET r == classify("Api", fDate, fRate, fVol) IN
        /\ ApiStatus(ClassifyMessage(r.status), IF r.called THEN "info" ELSE "error")
        /\ req' = r
    /\ UNCHANGED <<tz, geckoVars, visorVars, apiVars, fetchVars, fDate, fRate, fVol, adviceVars, dateVars, loadVars, selVars, pageVars>>

NextApi ==
    \/ ApiSetupStart
    \/ ApiLoadFails
    \/ ApiLoadReturnsTrue
    \/ ApiNormalizeTimer
    \/ ApiCSVLoaded
    \/ ApiTrainModel
    \/ ApiWhileTraining
    \/ ApiFinishedTraining
    \/ ApiClassify

SpecApi == InitApi /\ [][NextApi]_vars

\* the page with every step of setup taken in the end: the fetch settles,
\* the timer fires, and the CSV load completes
SpecApiLive ==
    /\ SpecApi
    /\ WF_vars(ApiSetupStart)
    /\ WF_vars(ApiLoadFails \/ ApiLoadReturnsTrue)
    /\ WF_vars(ApiNormalizeTimer)
    /\ WF_vars(ApiCSVLoaded)

\* loading from the API has ended, and it failed
ApiLoadEnded == apiLoad \notin {"none", "added"}
ApiLoadFailed == apiLoad \in ApiLoadFailures \cup {"normalizeError"}

\* C23: once loading from the API has ended, the CSV fallback is loaded if
\* and only if it failed; and the model becomes ready in the end, with
\* isModelReady and trainingDataLoaded both true.
C23_FallbackIffApiFails ==
    /\ [](ApiLoadEnded => (csvFallback # "none" <=> ApiLoadFailed))
    /\ <>(isModelReady /\ trainingDataLoaded)

(***************************************************************************)
(* The training visor of the Robust variant: startTraining records whether *)
(* the visor is open and opens it, trainingDone closes it again with       *)
(* closeVisorWithRetries.  The visor's button toggles the component; the   *)
(* data-isopen attribute follows the component when the page renders.      *)
(***************************************************************************)
\* tries of the call in autoCloseVisorAfterTraining
AutoCloseTries == 10

\* a training run: what isVisorOpenNow() gave at the press, and its close
\* procedure: "training" (run not done), "none" (not closed), "timer" (the
\* 400 ms timer is set), "running" (a tick is scheduled), "ended"
Run(wasOpen, closer, attempt, clicks) ==
    [wasOpen |-> wasOpen, closer |-> closer, attempt |-> attempt, clicks |-> clicks]

\* isVisorOpenNow()
isVisorOpenNow == dataIsOpen

InitVisor ==
    /\ tz = ZoneUTC
    /\ visorOpen \in BOOLEAN
    /\ dataIsOpen = visorOpen
    /\ visorWasOpenAtTrainStart = FALSE
    /\ openTimer = 0
    /\ visorRuns = <<>>
    /\ initPc = "done" /\ neuralModel = TRUE /\ isModelReady = TRUE
    /\ isTraining = FALSE /\ isTrained = FALSE /\ trainPending = 0 /\ ops = <<>>
    /\ StatusIdle
    /\ ApiIdle
    /\ DateIdle
    /\ LoadIdle
    /\ SelIdle
    /\ AdviceIdle
    /\ PredIdle
    /\ FetchIdle
    /\ GeckoIdle

\* startTraining with its visor steps: a press of Train on the ready page
VisorStartTraining ==
    /\ ~isTraining
    /\ Len(visorRuns) < MaxTrainings
    /\ visorWasOpenAtTrainStart' = isVisorOpenNow
    /\ visorRuns' = Append(visorRuns, Run(isVisorOpenNow, "training", 0, 0))
    /\ isTraining' = TRUE
    /\ isTrained' = FALSE
    /\ trainPending' = trainPending + 1
    /\ openTimer' = openTimer + 1
    /\ TrainStatus("Training started", "status-info")
    /\ UNCHANGED <<tz, geckoVars, apiVars, fetchVars, predVars, adviceVars, dateVars, loadVars, selVars, initPc, neuralModel,
                   isModelReady, ops, visorOpen, dataIsOpen>>

\* openVisorForTraining: the visor's open(), or without it a click of the
\* toggle when the visor seems closed (no click without the buttons)
VisorOpenForTraining ==
    /\ openTimer > 0
    /\ openTimer' = openTimer - 1
    /\ \/ visorOpen' = TRUE
       \/ visorOpen' = IF isVisorOpenNow THEN visorOpen ELSE ~visorOpen
       \/ ~isVisorOpenNow /\ visorOpen' = visorOpen
    /\ UNCHANGED <<tz, geckoVars, apiVars, statusVars, fetchVars, predVars, adviceVars, dateVars, loadVars, selVars,
                   pageVars, dataIsOpen, visorWasOpenAtTrainStart, visorRuns>>

\* trainingDone with autoCloseVisorAfterTraining; the trainer completes
\* after the 0 ms timer of startTraining has fired
VisorTrainingDone ==
    /\ trainPending > 0 /\ openTimer = 0
    /\ trainPending' = trainPending - 1
    /\ isTraining' = FALSE
    /\ isTrained' = TRUE
    /\ TrainStatus("Training complete. You can predict now.", "status-success")
    /\ visorRuns' = [visorRuns EXCEPT ![Len(visorRuns)].closer =
                    IF visorWasOpenAtTrainStart THEN "none" ELSE "timer"]
    /\ UNCHANGED <<tz, geckoVars, apiVars, fetchVars, predVars, adviceVars, dateVars, loadVars, selVars, initPc, neuralModel,
                   isModelReady, ops, visorOpen, dataIsOpen, visorWasOpenAtTrainStart, openTimer>>

\* a tick that clicks also when the visor is observed closed
TickBlind(i, tries, clicked) ==
    LET attempt == visorRuns[i].attempt + 1 IN
    /\ visorRuns' = [visorRuns EXCEPT ![i].attempt = attempt,
                            ![i].clicks = IF clicked THEN @ + 1 ELSE @,
                            ![i].closer = IF attempt < tries THEN "running" ELSE "ended"]
    /\ visorOpen' = IF clicked THEN ~visorOpen ELSE visorOpen

\* tick of closeVisorWithRetries({tries}) for run i; clicked is what
\* clickVisorToggle returns (false without the buttons)
Tick(i, tries, clicked) ==
    LET attempt == visorRuns[i].attempt + 1 IN
    IF ~isVisorOpenNow
    THEN /\ visorRuns' = [visorRuns EXCEPT ![i].attempt = attempt, ![i].closer = "ended"]
         /\ UNCHANGED visorOpen
    ELSE /\ visorRuns' = [visorRuns EXCEPT ![i].attempt = attempt,
                                 ![i].clicks = IF clicked THEN @ + 1 ELSE @,
                                 ![i].closer = IF attempt < tries THEN "running" ELSE "ended"]
         /\ visorOpen' = IF clicked THEN ~visorOpen ELSE visorOpen

\* the 400 ms timer of autoCloseVisorAfterTraining fires:
\* closeVisorWithRetries visorRuns its first tick
VisorCloseTimer ==
    \E i \in 1..Len(visorRuns), clicked \in BOOLEAN :
        /\ visorRuns[i].closer = "timer"
        /\ Tick(i, AutoCloseTries, clicked)
        /\ UNCHANGED <<tz, geckoVars, apiVars, statusVars, fetchVars, predVars, adviceVars, dateVars, loadVars, selVars,
                       pageVars, dataIsOpen, visorWasOpenAtTrainStart, openTimer>>

\* a scheduled tick of closeVisorWithRetries visorRuns
VisorTick ==
    \E i \in 1..Len(visorRuns), clicked \in BOOLEAN :
        /\ visorRuns[i].closer = "running"
        /\ Tick(i, AutoCloseTries, clicked)
        /\ UNCHANGED <<tz, geckoVars, apiVars, statusVars, fetchVars, predVars, adviceVars, dateVars, loadVars, selVars,
                       pageVars, dataIsOpen, visorWasOpenAtTrainStart, openTimer>>

\* the page renders: data-isopen takes the component's state
VisorRender ==
    /\ dataIsOpen # visorOpen
    /\ dataIsOpen' = visorOpen
    /\ UNCHANGED <<tz, geckoVars, apiVars, statusVars, fetchVars, predVars, adviceVars, dateVars, loadVars, selVars,
                   pageVars, visorOpen, visorWasOpenAtTrainStart, openTimer, visorRuns>>

NextVisor ==
    \/ VisorStartTraining
    \/ VisorOpenForTraining
    \/ VisorTrainingDone
    \/ VisorCloseTimer
    \/ VisorTick
    \/ VisorRender

SpecVisor == InitVisor /\ [][NextVisor]_vars

\* nothing of the visor logic is pending and the attribute is up to date
VisorQuiet ==
    /\ ~isTraining /\ openTimer = 0 /\ dataIsOpen = visorOpen
    /\ \A i \in 1..Len(visorRuns) : visorRuns[i].closer \in {"none", "ended"}

\* C25: a run that saw the visor open at the Train press gets no close
\* procedure and no click; a run that saw it closed gets the close procedure
\* once training completes, and when all visorRuns saw it closed and everything
\* has settled the visor is closed.
C25_AutoCloseOnlyIfWasClosed ==
    /\ \A i \in 1..Len(visorRuns) :
          /\ visorRuns[i].wasOpen => (visorRuns[i].closer \in {"training", "none"} /\ visorRuns[i].clicks = 0)
          /\ ~visorRuns[i].wasOpen => visorRuns[i].closer # "none"
    /\ (VisorQuiet /\ visorRuns # <<>> /\ \A i \in 1..Len(visorRuns) : ~visorRuns[i].wasOpen) => ~visorOpen

\* C26: closeVisorWithRetries makes at most tries attempts and at most one
\* click per attempt, schedules a further tick only below tries, and a tick
\* that observes the visor closed clicks nothing and ends the procedure.
C26_ClosingTerminates ==
    /\ [](\A i \in 1..Len(visorRuns) :
            /\ visorRuns[i].attempt <= AutoCloseTries
            /\ visorRuns[i].clicks <= visorRuns[i].attempt
            /\ visorRuns[i].closer = "running" => (visorRuns[i].attempt >= 1 /\ visorRuns[i].attempt < AutoCloseTries))
    /\ [][\A i \in 1..Len(visorRuns) :
            (visorRuns'[i].attempt # visorRuns[i].attempt) =>
                /\ visorRuns'[i].attempt = visorRuns[i].attempt + 1
                /\ ~isVisorOpenNow =>
                      (visorRuns'[i].clicks = visorRuns[i].clicks /\ visorRuns'[i].closer = "ended"
                          /\ visorOpen' = visorOpen)]_vars
    /\ [][\A i \in 1..Len(visorRuns) : visorRuns[i].closer = "ended" => visorRuns'[i] = visorRuns[i]]_vars

\* the flag lagged: every one of the tries attempts clicked
C26_Witness ==
    \E i \in 1..Len(visorRuns) :
        /\ visorRuns[i].closer = "ended" /\ visorRuns[i].attempt = AutoCloseTries
        /\ visorRuns[i].clicks = AutoCloseTries

(***************************************************************************)
(* Fetch Live Data of the Robust variant: one request to CoinGecko.  The   *)
(* page shows the button with the caption "Fetch Live Data"; a disabled    *)
(* button takes no press.                                                  *)
(***************************************************************************)
InitGecko ==
    /\ tz = ZoneUTC
    /\ fetchPc = "idle"
    /\ tried = <<>>
    /\ fDate = <<>> /\ req = NoReq
    /\ fRate \in NumberFields
    /\ fVol \in NumberFields
    /\ GeckoIdle
    /\ StatusIdle
    /\ ApiIdle
    /\ VisorIdle
    /\ DateIdle
    /\ LoadIdle
    /\ SelIdle
    /\ PageIdle
    /\ AdviceIdle

\* a press of Fetch Live Data: fetchLiveData up to the fetch
GeckoFetchLiveData ==
    /\ ~fetchBtn.disabled
    /\ Len(tried) < MaxFetches
    /\ fetchBtn' = Button(TRUE, "Fetching...")
    /\ lastUpdate' = "Fetching CoinGecko..."
    /\ fetchPc' = "trying"
    /\ UNCHANGED <<tz, visorVars, apiVars, statusVars, tried, predVars, dateVars, loadVars, selVars, pageVars,
                   adviceVars>>

\* the request ends, with a catch that does not reach the finally block
GeckoAnswerNoFinally ==
    /\ fetchPc = "trying"
    /\ \E ans \in Answers :
        /\ tried' = Append(tried, [api |-> ApiNames[1], ans |-> ans])
        /\ IF ans.kind = "ok"
           THEN /\ fRate' = JsString(Num(RoundHalves(ans.a)))
                /\ fVol' = JsString(Num(RoundHalves(ans.b)))
                /\ lastUpdate' = "Last update"
                /\ fetchBtn' = Button(FALSE, "Fetch Live Data")
           ELSE /\ lastUpdate' = "Fetch failed"
                /\ UNCHANGED <<fRate, fVol, fetchBtn>>
    /\ fetchPc' = "idle"
    /\ UNCHANGED <<tz, visorVars, apiVars, statusVars, fDate, req, dateVars, loadVars, selVars, pageVars,
                   adviceVars>>

\* the request ends: the fetch rejects, the response is not ok, the body is
\* no JSON, price or volume is no number, or both are numbers and the
\* fields are set; then the finally block
GeckoAnswer ==
    /\ fetchPc = "trying"
    /\ \E ans \in Answers :
        /\ tried' = Append(tried, [api |-> ApiNames[1], ans |-> ans])
        /\ IF ans.kind = "ok"
           THEN /\ fRate' = JsString(Num(RoundHalves(ans.a)))
                /\ fVol' = JsString(Num(RoundHalves(ans.b)))
                /\ lastUpdate' = "Last update"
           ELSE /\ lastUpdate' = "Fetch failed"
                /\ UNCHANGED <<fRate, fVol>>
    /\ fetchBtn' = Button(FALSE, "Fetch Live Data")
    /\ fetchPc' = "idle"
    /\ UNCHANGED <<tz, visorVars, apiVars, statusVars, fDate, req, dateVars, loadVars, selVars, pageVars,
                   adviceVars>>

NextGecko == GeckoFetchLiveData \/ GeckoAnswer

SpecGecko == InitGecko /\ [][NextGecko]_vars

====
